---- MODULE Spec2Model ----
(***************************************************************************)
(* AutoFinance: the portfolio engine (mcp-servers/execution/server.py),    *)
(* the policy validator (mcp-servers/risk/server.py) and the supervisor    *)
(* pipelines (mcp-servers/trader-supervisor, investor-supervisor), the      *)
(* compliance server (mcp-servers/compliance/server.py), the notification  *)
(* gateway (mcp-servers/notification-gateway/server.py) and the market     *)
(* server's symbol conversion (mcp-servers/market/server.py).              *)
(*                                                                         *)
(* Numbers.  The code computes with Python floats.  Money, quantities and  *)
(* prices are modelled as integers, and the one quotient the engine keeps  *)
(* (avg_price) as a fraction in lowest terms, so arithmetic is exact:      *)
(* float rounding is outside the model.  Wall-clock values (timestamp,     *)
(* last_updated) are not modelled.                                         *)
(***************************************************************************)
EXTENDS Integers, Sequences, FiniteSets, TLC

VARIABLES
    cash,                   \* PORTFOLIO_STATE["cash"]
    positions,              \* PORTFOLIO_STATE["positions"]: symbol -> position
    transaction_history,    \* PORTFOLIO_STATE["transaction_history"]
    last_tool,              \* the tool whose handler ran last
    result,                 \* the payload that handler returned
    calls,                  \* number of tool calls handled so far
    proposal,               \* risk server: the arguments of the last validation
    verdict,                \* risk server: the verdict it returned
    run,                    \* supervisors: what the last pipeline run returned
    rpc_log,                \* supervisors: the calls that run made, in order
    pc,                     \* engine threads: the statement each one is at
    req,                    \* engine threads: the request each one handles
    replies,                \* engine threads: what each one returned
    AUDIT_LOG,              \* compliance server: the audit trail
    issued,                 \* compliance server: every event_id log_event returned
    ACTIVE_ALERTS,          \* gateway: alert_id -> alert dict, in insertion order
    heap,                   \* gateway: the alert dicts, by reference
    ALERTS_FILE,            \* gateway: the JSON document in alerts_data.json
    _monitor_running,       \* gateway: the monitor's flag
    _monitor_interval,      \* gateway: seconds between two ticks
    loops,                  \* gateway: the monitor threads started so far
    handler,                \* gateway: the tool call the server is handling
    reply,                  \* gateway: what the last tool call returned
    now,                    \* gateway: the clock, in whole seconds
    broadcasts,             \* gateway: _broadcast calls made for each alert dict
    boots,                  \* gateway: restarts of the process so far
    stopped,                \* gateway: stop_monitor succeeded and no start followed
    _monitor_log,           \* gateway: the monitor's log of its ticks
    ticks,                  \* gateway: ticks the monitor threads have begun
    config,                 \* gateway: the channels the environment configures
    NOTIFICATION_HISTORY,   \* gateway: the notification records kept in memory
    requested,              \* market server: the symbol a client asks about
    ticker                  \* market server: the ticker it was converted to

engineVars == <<cash, positions, transaction_history, last_tool, result, calls>>

riskVars == <<proposal, verdict>>

pipeVars == <<run, rpc_log>>

threadVars == <<pc, req, replies>>

complianceVars == <<AUDIT_LOG, issued>>

logVars == <<_monitor_log, ticks>>

alertVars == <<ACTIVE_ALERTS, heap, ALERTS_FILE, _monitor_running, _monitor_interval,
               loops, handler, reply, now, broadcasts, boots, stopped, logVars>>

notifyVars == <<config, NOTIFICATION_HISTORY>>

gatewayVars == <<alertVars, notifyVars>>

marketVars == <<requested, ticker>>

serviceVars == <<complianceVars, gatewayVars, marketVars>>

vars == <<cash, positions, transaction_history, last_tool, result, calls,
          proposal, verdict, run, rpc_log, pc, req, replies, AUDIT_LOG, issued,
          ACTIVE_ALERTS, heap, ALERTS_FILE, _monitor_running, _monitor_interval,
          loops, handler, reply, now, broadcasts, boots, stopped, _monitor_log,
          ticks, config, NOTIFICATION_HISTORY, requested, ticker>>

----------------------------------------------------------------------------
(* Bounds and input sets *)

MaxCalls == 2               \* tool calls in one run of the engine (Spec)
MaxCallsS4 == 3             \* tool calls in one run of scenario S4 (SpecS4)

DefaultCash == 100000       \* PORTFOLIO_STATE["cash"] at import

Actions == {"BUY", "SELL", "HOLD"}
\* line 58, action: Literal["BUY", "SELL"]: what the tool execute_trade lets in
DeclaredActions == {"BUY", "SELL"}
TradeIds == {<<"T1">>}
RebalanceIds == {"R1"}
RiskValidations == {[approved |-> TRUE, risk_score |-> 320]}

Change(symbol, action, quantity, price) ==
    [symbol |-> symbol, action |-> action, quantity |-> quantity, price |-> price]

\* the lists that take each element of S at most once, in any order
Arrangements(S) ==
    UNION {{l \in [1..k -> S] : \A i, j \in 1..k : l[i] = l[j] => i = j} :
              k \in 0..Cardinality(S)}

\* The inputs of Spec: small values, with a zero and a negative quantity.
Symbols == {"A", "B"}
Quantities == {-1, 0, 1, 2}
Prices == {1, 3}
Changes ==
    {Change("A", "BUY", 1, 1), Change("B", "BUY", 2, 3), Change("A", "SELL", -2, 3)}
Inputs ==
    [Syms |-> Symbols, Qtys |-> Quantities, Prcs |-> Prices,
     Lists |-> Arrangements(Changes), Cash |-> {5}, Calls |-> MaxCalls]

\* The inputs of SpecHold: the changes of apply_rebalance are plain dicts,
\* their action is any string.
HoldChanges ==
    {Change("A", "BUY", 1, 1), Change("A", "SELL", 1, 3), Change("B", "HOLD", 1, 1)}
InputsHold == [Inputs EXCEPT !.Lists = Arrangements(HoldChanges)]

\* The inputs of SpecS4: the values of scenario S4 (spec section 8).
S4Changes == <<Change("A", "SELL", 100, 10), Change("B", "BUY", 1000, 50),
               Change("C", "BUY", 5, 200)>>
InputsS4 ==
    [Syms |-> {"A"}, Qtys |-> {100}, Prcs |-> {10},
     Lists |-> Arrangements({S4Changes[i] : i \in 1..3}),
     Cash |-> {1300}, Calls |-> MaxCallsS4]

----------------------------------------------------------------------------
(* Exact fractions: avg_price is [num, den] in lowest terms, den > 0 *)

Abs(x) == IF x < 0 THEN -x ELSE x

RECURSIVE GCD(_, _)
GCD(a, b) == IF b = 0 THEN a ELSE GCD(b, a % b)

Frac(n, d) ==
    LET g == GCD(Abs(n), Abs(d))
        s == IF d < 0 THEN -1 ELSE 1
    IN  [num |-> s * (n \div g), den |-> s * (d \div g)]

----------------------------------------------------------------------------
(* The engine's state as one value *)

State(c, p, h) == [cash |-> c, positions |-> p, transaction_history |-> h]

Current == State(cash, positions, transaction_history)

\* dict.get(key, default)
Get(d, key, default) == IF key \in DOMAIN d THEN d[key] ELSE default

Put(f, k, v) == [x \in DOMAIN f \cup {k} |-> IF x = k THEN v ELSE f[x]]
Drop(f, k) == [x \in DOMAIN f \ {k} |-> f[x]]

RECURSIVE SumOver(_, _)
SumOver(f, S) ==
    IF S = {} THEN 0
    ELSE LET k == CHOOSE x \in S : TRUE
         IN  f[k] + SumOver(f, S \ {k})

\* calculate_portfolio_value: cash plus the positions' current_value
calculate_portfolio_value(st) ==
    st.cash + SumOver([s \in DOMAIN st.positions |-> st.positions[s].current_value],
                      DOMAIN st.positions)

\* a variant that records the new price and leaves current_value stale
update_position_value_stale(st, symbol, current_price) ==
    IF symbol \in DOMAIN st.positions
    THEN [st EXCEPT !.positions[symbol].current_price = current_price]
    ELSE st

\* update_position_value
update_position_value(st, symbol, current_price) ==
    IF symbol \in DOMAIN st.positions
    THEN [st EXCEPT !.positions[symbol].current_value =
                        st.positions[symbol].quantity * current_price,
                    !.positions[symbol].current_price = current_price]
    ELSE st

----------------------------------------------------------------------------
(* execute_trade *)

Refusal(trade_id, reason) ==
    [success |-> FALSE, trade_id |-> trade_id, reason |-> reason]

Outcome(st, ret) == [st |-> st, ret |-> ret]

\* positions.get(symbol): an optional value, <<>> for None
GetPosition(st, symbol) ==
    IF symbol \in DOMAIN st.positions THEN <<st.positions[symbol]>> ELSE <<>>

\* a variant whose average cost of an existing position becomes the last price
ExecuteBuyLastPrice(st, symbol, quantity, price) ==
    LET trade_value == quantity * price
        st1 == [st EXCEPT !.cash = st.cash - trade_value]
    IN  IF symbol \in DOMAIN st.positions
        THEN LET pos == st.positions[symbol]
                 total_quantity == pos.quantity + quantity
             IN  IF total_quantity = 0
                 THEN [st |-> st1, raised |-> TRUE]
                 ELSE [st |-> [st1 EXCEPT !.positions[symbol] =
                                  [quantity |-> total_quantity,
                                   avg_price |-> Frac(price, 1),
                                   current_value |-> total_quantity * price,
                                   current_price |-> price]],
                       raised |-> FALSE]
        ELSE [st |-> [st1 EXCEPT !.positions =
                         Put(st.positions, symbol,
                             [quantity |-> quantity,
                              avg_price |-> Frac(price, 1),
                              current_value |-> trade_value,
                              current_price |-> price])],
              raised |-> FALSE]

\* lines 91-110, the BUY branch after the cash check.  raised is TRUE when
\* total_cost / total_quantity divides by zero: the cash is already debited
\* and the position is not yet touched.
ExecuteBuy(st, symbol, quantity, price) ==
    LET trade_value == quantity * price
        st1 == [st EXCEPT !.cash = st.cash - trade_value]
    IN  IF symbol \in DOMAIN st.positions
        THEN LET pos == st.positions[symbol]
                 total_quantity == pos.quantity + quantity
                 \* pos.avg_price * pos.quantity + trade_value, over pos.avg_price.den
                 total_cost_num == pos.avg_price.num * pos.quantity
                                     + trade_value * pos.avg_price.den
             IN  IF total_quantity = 0
                 THEN [st |-> st1, raised |-> TRUE]
                 ELSE [st |-> [st1 EXCEPT !.positions[symbol] =
                                  [quantity |-> total_quantity,
                                   avg_price |-> Frac(total_cost_num,
                                                      pos.avg_price.den * total_quantity),
                                   current_value |-> total_quantity * price,
                                   current_price |-> price]],
                       raised |-> FALSE]
        ELSE [st |-> [st1 EXCEPT !.positions =
                         Put(st.positions, symbol,
                             [quantity |-> quantity,
                              avg_price |-> Frac(price, 1),
                              current_value |-> trade_value,
                              current_price |-> price])],
              raised |-> FALSE]

\* a variant that keeps the entry of a position sold down to zero
ExecuteSellKeepsEntry(st, symbol, quantity, price) ==
    LET trade_value == quantity * price
        new_quantity == st.positions[symbol].quantity - quantity
    IN  [st EXCEPT !.cash = st.cash + trade_value,
                   !.positions[symbol].quantity = new_quantity,
                   !.positions[symbol].current_value = new_quantity * price,
                   !.positions[symbol].current_price = price]

\* lines 131-139, the SELL branch after its two checks
ExecuteSell(st, symbol, quantity, price) ==
    LET trade_value == quantity * price
        pos == st.positions[symbol]
        new_quantity == pos.quantity - quantity
        st1 == [st EXCEPT !.cash = st.cash + trade_value,
                          !.positions[symbol].quantity = new_quantity,
                          !.positions[symbol].current_value = new_quantity * price,
                          !.positions[symbol].current_price = price]
    IN  IF new_quantity = 0
        THEN [st1 EXCEPT !.positions = Drop(st1.positions, symbol)]
        ELSE st1

\* lines 141-166: record the transaction and build the success payload
RecordTransaction(st, trade_id, symbol, action, quantity, price, risk_validation) ==
    LET transaction == [trade_id |-> trade_id, symbol |-> symbol, action |-> action,
                        quantity |-> quantity, price |-> price,
                        value |-> quantity * price,
                        risk_score |-> Get(risk_validation, "risk_score", 0)]
        st1 == [st EXCEPT !.transaction_history = Append(@, transaction)]
    IN  Outcome(st1, [success |-> TRUE, trade_id |-> trade_id, symbol |-> symbol,
                      action |-> action, quantity |-> quantity, price |-> price,
                      value |-> quantity * price, new_cash |-> st1.cash,
                      new_position |-> GetPosition(st1, symbol)])

\* lines 78-166: the body after the approval check
ExecuteApproved(st, trade_id, symbol, action, quantity, price, risk_validation) ==
    LET trade_value == quantity * price
    IN  IF action = "BUY"
        THEN IF st.cash < trade_value
             THEN Outcome(st, Refusal(trade_id, "Insufficient cash"))
             ELSE LET b == ExecuteBuy(st, symbol, quantity, price)
                  IN  IF b.raised
                      THEN Outcome(b.st, Refusal(trade_id, "Execution error"))
                      ELSE RecordTransaction(b.st, trade_id, symbol, action,
                                             quantity, price, risk_validation)
        ELSE IF action = "SELL"
        THEN IF symbol \notin DOMAIN st.positions
             THEN Outcome(st, Refusal(trade_id, "No position"))
             ELSE IF st.positions[symbol].quantity < quantity
             THEN Outcome(st, Refusal(trade_id, "Insufficient quantity"))
             ELSE RecordTransaction(ExecuteSell(st, symbol, quantity, price),
                                    trade_id, symbol, action, quantity, price,
                                    risk_validation)
        ELSE RecordTransaction(st, trade_id, symbol, action, quantity, price,
                               risk_validation)

\* a variant without the approval check of lines 70-76
execute_trade_unchecked(st, trade_id, symbol, action, quantity, price, approved, rv) ==
    ExecuteApproved(st, trade_id, symbol, action, quantity, price, rv)

execute_trade(st, trade_id, symbol, action, quantity, price, approved, risk_validation) ==
    IF ~approved
    THEN Outcome(st, Refusal(trade_id, "Trade not approved by risk server"))
    ELSE ExecuteApproved(st, trade_id, symbol, action, quantity, price,
                         risk_validation)

----------------------------------------------------------------------------
(* apply_rebalance *)

\* a variant that leaves the loop at the first refused change
RECURSIVE RebalanceLoopBreak(_, _, _, _, _)
RebalanceLoopBreak(st, rebalance_id, changes, risk_validation, i) ==
    IF i > Len(changes)
    THEN [st |-> st, applied_changes |-> <<>>]
    ELSE LET change == changes[i]
             o == execute_trade(st, <<rebalance_id, change.symbol>>, change.symbol,
                                change.action, change.quantity, change.price,
                                TRUE, risk_validation)
             rest == IF o.ret.success
                     THEN RebalanceLoopBreak(o.st, rebalance_id, changes,
                                             risk_validation, i + 1)
                     ELSE [st |-> o.st, applied_changes |-> <<>>]
         IN  [st |-> rest.st, applied_changes |-> <<o.ret>> \o rest.applied_changes]

\* the loop of lines 201-211 over changes[i..]: the state after the changes
\* and the list of their outcomes, in order
RECURSIVE RebalanceLoop(_, _, _, _, _)
RebalanceLoop(st, rebalance_id, changes, risk_validation, i) ==
    IF i > Len(changes)
    THEN [st |-> st, applied_changes |-> <<>>]
    ELSE LET change == changes[i]
             o == execute_trade(st, <<rebalance_id, change.symbol>>, change.symbol,
                                change.action, change.quantity, change.price,
                                TRUE, risk_validation)
             rest == RebalanceLoop(o.st, rebalance_id, changes, risk_validation, i + 1)
         IN  [st |-> rest.st, applied_changes |-> <<o.ret>> \o rest.applied_changes]

apply_rebalance(st, rebalance_id, changes, approved, risk_validation) ==
    IF ~approved
    THEN Outcome(st, [success |-> FALSE, rebalance_id |-> rebalance_id,
                      reason |-> "Rebalance not approved by risk server"])
    ELSE LET l == RebalanceLoop(st, rebalance_id, changes, risk_validation, 1)
         IN  Outcome(l.st, [success |-> TRUE, rebalance_id |-> rebalance_id,
                            changes_applied |-> Len(l.applied_changes),
                            changes |-> l.applied_changes,
                            new_portfolio_value |-> calculate_portfolio_value(l.st)])

----------------------------------------------------------------------------
(* get_portfolio_state, update_position_prices, reset_portfolio *)

get_portfolio_state(st) ==
    [cash |-> st.cash,
     positions |-> st.positions,
     total_value |-> calculate_portfolio_value(st),
     num_positions |-> Cardinality(DOMAIN st.positions),
     transaction_count |-> Len(st.transaction_history)]

RECURSIVE UpdateLoop(_, _, _)
UpdateLoop(st, price_updates, S) ==
    IF S = {} THEN st
    ELSE LET symbol == CHOOSE x \in S : TRUE
         IN  UpdateLoop(update_position_value(st, symbol, price_updates[symbol]),
                        price_updates, S \ {symbol})

update_position_prices(st, price_updates) ==
    LET st1 == UpdateLoop(st, price_updates, DOMAIN price_updates)
    IN  Outcome(st1, [updated_symbols |-> DOMAIN price_updates \cap DOMAIN st.positions,
                      new_portfolio_value |-> calculate_portfolio_value(st1)])

reset_portfolio(initial_cash) ==
    Outcome(State(initial_cash, <<>>, <<>>),
            [success |-> TRUE, initial_cash |-> initial_cash])

----------------------------------------------------------------------------
(* The risk server.  Fractions of one (confidence, volatility, position     *)
(* size, risk score) are counted in thousandths; position_size_pct is a     *)
(* quotient trade_value / portfolio_value and is kept as a fraction of      *)
(* thousandths.                                                             *)

RISK_POLICY ==
    [max_position_size |-> 150, max_volatility |-> 500, min_confidence |-> 600,
     max_portfolio_exposure |-> 800, max_single_trade_value |-> 20000]

Min(a, b) == IF a < b THEN a ELSE b

\* round(a / b) for b > 0: to the nearest integer, a tie to the even one
RoundDiv(a, b) ==
    LET q == a \div b
        r == a % b
    IN  IF 2 * r < b THEN q
        ELSE IF 2 * r > b THEN q + 1
        ELSE IF q % 2 = 0 THEN q ELSE q + 1

\* calculate_risk_score, then round(risk_score, 3) of line 99, in thousandths:
\* the mean of min(volatility / max_volatility, 1), 1 - confidence and
\* position_size / max_position_size
calculate_risk_score(confidence, volatility, position_size_pct) ==
    LET f1 == Min((1000 * volatility) \div RISK_POLICY.max_volatility, 1000)
        f2 == 1000 - confidence
        \* (f1 + f2) / 1000 + num / (den * max_position_size), over a common
        \* denominator, divided by 3 and counted in thousandths
        n == (f1 + f2) * RISK_POLICY.max_position_size * position_size_pct.den
               + 1000 * position_size_pct.num
        d == 3 * RISK_POLICY.max_position_size * position_size_pct.den
    IN  RoundDiv(n, d)

\* a variant whose limits are exclusive: a value exactly at a limit fails
TradeViolationsStrict(confidence, volatility, position_size_pct, trade_value) ==
    (IF confidence <= RISK_POLICY.min_confidence THEN <<"confidence">> ELSE <<>>)
    \o (IF volatility >= RISK_POLICY.max_volatility THEN <<"volatility">> ELSE <<>>)
    \o (IF position_size_pct.num >= RISK_POLICY.max_position_size * position_size_pct.den
        THEN <<"position_size">> ELSE <<>>)
    \o (IF trade_value >= RISK_POLICY.max_single_trade_value
        THEN <<"trade_value">> ELSE <<>>)

\* lines 69-85: the violations, one tag per failed check, in the code's order
TradeViolations(confidence, volatility, position_size_pct, trade_value) ==
    (IF confidence < RISK_POLICY.min_confidence THEN <<"confidence">> ELSE <<>>)
    \o (IF volatility > RISK_POLICY.max_volatility THEN <<"volatility">> ELSE <<>>)
    \o (IF position_size_pct.num > RISK_POLICY.max_position_size * position_size_pct.den
        THEN <<"position_size">> ELSE <<>>)
    \o (IF trade_value > RISK_POLICY.max_single_trade_value
        THEN <<"trade_value">> ELSE <<>>)

validate_trade(symbol, action, quantity, price, confidence, volatility, position_size_pct, trade_value) ==
    LET violations == TradeViolations(confidence, volatility, position_size_pct,
                                      trade_value)
        risk_score == calculate_risk_score(confidence, volatility, position_size_pct)
        approved == Len(violations) = 0
    IN  [approved |-> approved, risk_score |-> risk_score, violations |-> violations,
         reason |-> IF approved THEN "Approved - within policy bounds" ELSE "Rejected",
         proposal_type |-> "trade", symbol |-> symbol, action |-> action]

\* validate_rebalance.  turnover_pct and position_pct are quotients by
\* total_value (0 when total_value <= 0); each comparison is cross-multiplied.
\* A violation is <<"turnover">> or <<"position", symbol>>.
validate_rebalance(changes, total_value, max_turnover_pct) ==
    LET total_turnover == SumOver([i \in DOMAIN changes |-> Abs(changes[i].value)],
                                  DOMAIN changes)
        turnover_pct == Frac(total_turnover, total_value)
        turnover_violation ==
            IF total_value > 0
                 /\ 1000 * turnover_pct.num > max_turnover_pct * turnover_pct.den
            THEN <<(<<"turnover">>)>> ELSE <<>>
        oversized == SelectSeq(changes, LAMBDA change :
                        /\ total_value > 0
                        /\ LET position_pct == Frac(Abs(change.value), total_value)
                           IN  1000 * position_pct.num
                                 > RISK_POLICY.max_position_size * position_pct.den)
        violations == turnover_violation
                        \o [i \in DOMAIN oversized |-> <<"position", oversized[i].symbol>>]
        \* round(min(turnover_pct / max_turnover_pct, 1.0), 3)
        ratio == Frac(1000 * turnover_pct.num, max_turnover_pct * turnover_pct.den)
        risk_score == IF total_value <= 0 THEN 0
                      ELSE IF ratio.num >= ratio.den THEN 1000
                      ELSE RoundDiv(1000 * ratio.num, ratio.den)
        approved == Len(violations) = 0
    IN  [approved |-> approved, risk_score |-> risk_score, violations |-> violations,
         reason |-> IF approved THEN "Approved - rebalance within limits" ELSE "Rejected",
         proposal_type |-> "rebalance", total_turnover |-> total_turnover]

\* The inputs of SpecRisk: each checked value below, at and above its limit.
Confidences == {0, 599, 600, 601, 1000}
Volatilities == {0, 499, 500, 501, 1000}
PositionSizes == {Frac(0, 1), Frac(149, 1), Frac(150, 1), Frac(151, 1), Frac(1000, 1)}
TradeValues == {0, 19999, 20000, 20001}

ValidateTrade ==
    \E symbol \in {"A"}, action \in {"BUY", "SELL"}, quantity \in {1}, price \in {10},
       confidence \in Confidences, volatility \in Volatilities,
       position_size_pct \in PositionSizes, trade_value \in TradeValues :
        /\ proposal' = [symbol |-> symbol, action |-> action, quantity |-> quantity,
                        price |-> price, confidence |-> confidence,
                        volatility |-> volatility,
                        position_size_pct |-> position_size_pct,
                        trade_value |-> trade_value]
        /\ verdict' = validate_trade(symbol, action, quantity, price, confidence,
                                     volatility, position_size_pct, trade_value)
        /\ UNCHANGED <<engineVars, pipeVars, serviceVars, threadVars>>

----------------------------------------------------------------------------
(* The supervisors.  call_mcp_tool as shipped answers every call with a     *)
(* placeholder; its docstring says that a deployment connects it to the     *)
(* peer.  Both are modelled: a run is given the set of servers its calls    *)
(* reach (wired), and a call to any other server gets the placeholder.      *)
(* Quantities are whole units here, so round(x, 4) and round(x, 2) round to *)
(* the unit; dict iteration follows SymbolOrder.                            *)

Placeholder(server_name, tool_name) ==
    [simulated |-> TRUE, server |-> server_name, tool |-> tool_name]

call_mcp_tool(wired, server_name, tool_name, peer_reply) ==
    IF server_name \in wired THEN peer_reply ELSE Placeholder(server_name, tool_name)

\* one line of the "[MCP Call]" trace: ref is the trade_id or rebalance_id
\* sent to the engine's mutating tools, <<>> for every other call
Rpc(server_name, tool_name, ref) ==
    [server |-> server_name, tool |-> tool_name, ref |-> ref]

IntelServers ==
    {"market", "technical", "volatility", "news", "portfolio_analytics", "macro",
     "fundamental"}

WiredSets == {I \cup S : I \in {{}, IntelServers}, S \in SUBSET {"risk", "execution"}}

SymbolOrder == <<"A", "B", "C", "BTCUSDT", "ETHUSDT">>

Keys(d) == SelectSeq(SymbolOrder, LAMBDA s : s \in DOMAIN d)

\* what a run of a pipeline hands back: the engine's state after it, the
\* engine and risk handlers that ran last on its behalf (optional), the calls
\* it made and the value it returned
Run(st, engine, risk, rpc, r) ==
    [st |-> st, engine |-> engine, risk |-> risk, rpc |-> rpc, ret |-> r]

\* trader-supervisor

calculate_aggregate_confidence(signals) ==
    LET technical_conf == Get(signals.technical, "confidence", 500)
        sentiment_conf == Get(signals.sentiment, "confidence", 500)
        volatility_score == Get(signals.volatility, "risk_score", 500)
        volatility_conf == 1000 - volatility_score
    IN  RoundDiv(4 * technical_conf + 3 * sentiment_conf + 3 * volatility_conf, 10)

determine_trade_action(signals) ==
    LET technical_signal == Get(signals.technical, "signal", "HOLD")
        sentiment == Get(signals.sentiment, "sentiment", "NEUTRAL")
        buy_votes == (IF technical_signal = "BUY" THEN 1 ELSE 0)
                       + (IF sentiment = "POSITIVE" THEN 1 ELSE 0)
        sell_votes == (IF technical_signal = "SELL" THEN 1 ELSE 0)
                        + (IF sentiment = "NEGATIVE" THEN 1 ELSE 0)
    IN  IF buy_votes > sell_votes THEN "BUY"
        ELSE IF sell_votes > buy_votes THEN "SELL"
        ELSE "HOLD"

\* lines 333-357: the call of execute_trade, or its mock
SendTrade(st, use_mcp_calls, wired, trade_id, symbol, action, quantity, current_price, risk_validation) ==
    IF use_mcp_calls
    THEN LET o == execute_trade(st, trade_id, symbol, action, quantity, current_price,
                                TRUE, risk_validation)
             delivered == "execution" \in wired
         IN  [st |-> IF delivered THEN o.st ELSE st,
              execution |-> <<call_mcp_tool(wired, "execution", "execute_trade", o.ret)>>,
              rpc |-> <<Rpc("execution", "execute_trade", trade_id)>>,
              engine |-> IF delivered
                         THEN <<[tool |-> "execute_trade", ret |-> o.ret]>> ELSE <<>>]
    ELSE [st |-> st,
          execution |-> <<[success |-> TRUE, trade_id |-> trade_id, symbol |-> symbol,
                           action |-> action, quantity |-> quantity,
                           price |-> current_price, value |-> quantity * current_price]>>,
          rpc |-> <<>>, engine |-> <<>>]

\* a variant that sends the trade whatever the verdict
TradeExecutionUnguarded(st, approved, use_mcp_calls, wired, trade_id, symbol, action, quantity, current_price, risk_validation) ==
    SendTrade(st, use_mcp_calls, wired, trade_id, symbol, action, quantity,
              current_price, risk_validation)

\* lines 325-380, step 4: execute if approved
TradeExecution(st, approved, use_mcp_calls, wired, trade_id, symbol, action, quantity, current_price, risk_validation) ==
    IF approved
    THEN SendTrade(st, use_mcp_calls, wired, trade_id, symbol, action, quantity,
                   current_price, risk_validation)
    ELSE [st |-> st, execution |-> <<>>, rpc |-> <<>>, engine |-> <<>>]

\* what the risk server answers to validate_trade: its action parameter is
\* Literal["BUY", "SELL"], any other action is a parameter error
RiskServerValidateTrade(symbol, action, quantity, price, confidence, volatility, position_size_pct, trade_value) ==
    IF action \in {"BUY", "SELL"}
    THEN validate_trade(symbol, action, quantity, price, confidence, volatility,
                        position_size_pct, trade_value)
    ELSE [isError |-> TRUE]

process_trade_request(st, trade_id, symbol, quantity, use_mcp_calls, wired, peers) ==
    LET market_data ==
            IF use_mcp_calls
            THEN call_mcp_tool(wired, "market", "get_live_price",
                               [symbol |-> symbol, price |-> peers.price])
            ELSE [symbol |-> symbol, price |-> 48000]
        current_price == Get(market_data, "price", 48000)
        technical_data ==
            IF use_mcp_calls
            THEN call_mcp_tool(wired, "technical", "generate_signal", peers.technical)
            ELSE [signal |-> "BUY", confidence |-> 720]
        volatility_data ==
            IF use_mcp_calls
            THEN call_mcp_tool(wired, "volatility", "get_volatility_score",
                               peers.volatility)
            ELSE [volatility |-> 350, risk_level |-> "MEDIUM", risk_score |-> 450]
        sentiment_data ==
            IF use_mcp_calls
            THEN call_mcp_tool(wired, "news", "analyze_sentiment", peers.sentiment)
            ELSE [sentiment |-> "POSITIVE", score |-> 680, confidence |-> 650]
        signals == [technical |-> technical_data, volatility |-> volatility_data,
                    sentiment |-> sentiment_data]
        action == determine_trade_action(signals)
        aggregate_confidence == calculate_aggregate_confidence(signals)
        trade_value == quantity * current_price
        portfolio_state ==
            IF use_mcp_calls
            THEN call_mcp_tool(wired, "execution", "get_portfolio_state",
                               get_portfolio_state(st))
            ELSE [total_value |-> 100000, cash |-> 80000]
        portfolio_value == Get(portfolio_state, "total_value", 100000)
        read == IF use_mcp_calls /\ "execution" \in wired
                THEN <<[tool |-> "get_portfolio_state", ret |-> portfolio_state]>>
                ELSE <<>>
        gathered == IF use_mcp_calls
                    THEN <<Rpc("market", "get_live_price", <<>>),
                           Rpc("technical", "generate_signal", <<>>),
                           Rpc("volatility", "get_volatility_score", <<>>),
                           Rpc("news", "analyze_sentiment", <<>>),
                           Rpc("execution", "get_portfolio_state", <<>>)>>
                    ELSE <<>>
    IN  IF portfolio_value = 0
        THEN \* trade_value / portfolio_value raises: the except branch
             Run(st, read, <<>>, gathered,
                 [success |-> FALSE, trade_id |-> trade_id,
                  error |-> "Error processing trade"])
        ELSE LET share == Frac(trade_value, portfolio_value)
                 position_size_pct == Frac(1000 * share.num, share.den)
                 volatility == Get(volatility_data, "volatility", 350)
                 trade_proposal ==
                     [trade_id |-> trade_id, symbol |-> symbol, action |-> action,
                      quantity |-> quantity, price |-> current_price,
                      trade_value |-> trade_value, confidence |-> aggregate_confidence,
                      volatility |-> volatility, position_size_pct |-> position_size_pct]
                 peer_verdict ==
                     RiskServerValidateTrade(symbol, action, quantity, current_price,
                                             aggregate_confidence, volatility,
                                             position_size_pct, trade_value)
                 risk_validation ==
                     IF use_mcp_calls
                     THEN call_mcp_tool(wired, "risk", "validate_trade", peer_verdict)
                     ELSE [approved |-> TRUE, risk_score |-> 320, violations |-> <<>>,
                           reason |-> "Approved - within policy bounds"]
                 approved == Get(risk_validation, "approved", FALSE)
                 x == TradeExecution(st, approved, use_mcp_calls, wired, trade_id, symbol,
                                     action, quantity, current_price, risk_validation)
             IN  Run(x.st,
                     IF x.engine # <<>> THEN x.engine ELSE read,
                     IF use_mcp_calls /\ "risk" \in wired /\ action \in {"BUY", "SELL"}
                     THEN <<[proposal |-> [symbol |-> symbol, action |-> action,
                                           quantity |-> quantity, price |-> current_price,
                                           confidence |-> aggregate_confidence,
                                           volatility |-> volatility,
                                           position_size_pct |-> position_size_pct,
                                           trade_value |-> trade_value],
                             verdict |-> peer_verdict]>>
                     ELSE <<>>,
                     gathered
                       \o (IF use_mcp_calls
                           THEN <<Rpc("risk", "validate_trade", <<>>)>> ELSE <<>>)
                       \o x.rpc,
                     [success |-> approved /\ (IF x.execution # <<>>
                                               THEN Get(x.execution[1], "success", FALSE)
                                               ELSE FALSE),
                      trade_id |-> trade_id, proposal |-> trade_proposal,
                      risk_validation |-> risk_validation, execution |-> x.execution])

\* investor-supervisor

REBALANCE_THRESHOLD_PCT == 1   \* build_rebalance_changes: total_value * 0.01
SUGGESTION_THRESHOLD_PCT == 2  \* generate_rebalancing_suggestions: total_value * 0.02
MAX_TURNOVER_PCT == 300        \* max_turnover_pct = 0.30, in thousandths

MockPortfolio ==
    [cash |-> 30000, total_value |-> 100000,
     positions |->
        [s \in {"BTCUSDT", "ETHUSDT"} |->
            IF s = "BTCUSDT"
            THEN [quantity |-> 1, avg_price |-> Frac(45000, 1),
                  current_price |-> 48000, current_value |-> 48000]
            ELSE [quantity |-> 8, avg_price |-> Frac(2600, 1),
                  current_price |-> 2800, current_value |-> 22400]]]

\* symbol -> target weight, a fraction of thousandths
calculate_target_allocation(macro_analysis, current_portfolio) ==
    LET investment_stance == Get(macro_analysis, "investment_stance", "BALANCED")
        target_invested == IF investment_stance = "AGGRESSIVE" THEN 800
                           ELSE IF investment_stance = "DEFENSIVE" THEN 500
                           ELSE 700
        held == Get(current_portfolio, "positions", <<>>)
        num_positions == Cardinality(DOMAIN held)
    IN  [symbol \in DOMAIN held |-> Frac(target_invested, num_positions)]

\* the loop of build_rebalance_changes over keys[i..].  value_diff is
\* target_weight * total_value - current_value, here num / den.  raised is
\* TRUE when abs(value_diff) / current_price divides by zero.
RECURSIVE BuildLoop(_, _, _, _)
BuildLoop(current_portfolio, target_allocation, keys, i) ==
    IF i > Len(keys)
    THEN [changes |-> <<>>, raised |-> FALSE]
    ELSE LET symbol == keys[i]
             total_value == Get(current_portfolio, "total_value", 100000)
             held == Get(current_portfolio, "positions", <<>>)
             current_pos == Get(held, symbol, <<>>)
             current_value == Get(current_pos, "current_value", 0)
             target_weight == target_allocation[symbol]
             den == 1000 * target_weight.den
             num == target_weight.num * total_value - current_value * den
             current_price == Get(current_pos, "current_price", 100)
             rest == BuildLoop(current_portfolio, target_allocation, keys, i + 1)
             \* abs(value_diff) > total_value * 0.01, both sides times den
             threshold == (REBALANCE_THRESHOLD_PCT * total_value * den) \div 100
         IN  IF Abs(num) > threshold
             THEN IF current_price = 0
                  THEN [changes |-> <<>>, raised |-> TRUE]
                  ELSE [changes |->
                           <<[symbol |-> symbol,
                              action |-> IF num > 0 THEN "BUY" ELSE "SELL",
                              quantity |-> RoundDiv(Abs(num), den * current_price),
                              price |-> current_price,
                              value |-> RoundDiv(Abs(num), den)]>> \o rest.changes,
                        raised |-> rest.raised]
             ELSE rest

build_rebalance_changes(current_portfolio, target_allocation) ==
    BuildLoop(current_portfolio, target_allocation, Keys(target_allocation), 1)

\* portfolio-analytics: the loop of generate_rebalancing_suggestions over
\* keys[i..].  value_diff is weight_diff * total_value, here num / den.
\* raised is TRUE when a quotient divides by zero.
RECURSIVE SuggestLoop(_, _, _, _)
SuggestLoop(portfolio, target_allocation, keys, i) ==
    IF i > Len(keys)
    THEN [suggestions |-> <<>>, raised |-> FALSE]
    ELSE LET symbol == keys[i]
             total_value == Get(portfolio, "total_value", 100000)
             held == Get(portfolio, "positions", <<>>)
             current_pos == Get(held, symbol, <<>>)
             current_value == Get(current_pos, "current_value", 0)
             target_weight == target_allocation[symbol]
             den == 1000 * target_weight.den
             num == target_weight.num * total_value - current_value * den
             current_price == Get(current_pos, "current_price", 1)
             rest == SuggestLoop(portfolio, target_allocation, keys, i + 1)
             \* abs(value_diff) > total_value * 0.02, both sides times den
             threshold == (SUGGESTION_THRESHOLD_PCT * total_value * den) \div 100
         IN  IF total_value = 0
             THEN [suggestions |-> <<>>, raised |-> TRUE]
             ELSE IF Abs(num) > threshold
             THEN IF current_price = 0
                  THEN [suggestions |-> <<>>, raised |-> TRUE]
                  ELSE [suggestions |->
                           <<[symbol |-> symbol,
                              action |-> IF num > 0 THEN "BUY" ELSE "SELL",
                              value_change |-> RoundDiv(Abs(num), den),
                              quantity |-> RoundDiv(Abs(num), den * current_price)]>>
                             \o rest.suggestions,
                        raised |-> rest.raised]
             ELSE rest

\* a target allocation that is None or empty is replaced by 70% in equal
\* weights over the positions held
generate_rebalancing_suggestions(portfolio, target_allocation) ==
    LET held == Get(portfolio, "positions", <<>>)
        target == IF DOMAIN target_allocation = {} /\ DOMAIN held # {}
                  THEN [symbol \in DOMAIN held |->
                           Frac(700, Cardinality(DOMAIN held))]
                  ELSE target_allocation
    IN  SuggestLoop(portfolio, target, Keys(target), 1)

\* lines 382-422, step 7: apply the rebalance if approved
RebalanceExecution(st, approved, use_mcp_calls, wired, review_id, changes, risk_validation) ==
    IF ~approved
    THEN [st |-> st, execution |-> <<>>, rpc |-> <<>>, engine |-> <<>>]
    ELSE IF use_mcp_calls
    THEN LET o == apply_rebalance(st, review_id, changes, TRUE, risk_validation)
             delivered == "execution" \in wired
         IN  [st |-> IF delivered THEN o.st ELSE st,
              execution |-> <<call_mcp_tool(wired, "execution", "apply_rebalance", o.ret)>>,
              rpc |-> <<Rpc("execution", "apply_rebalance", <<review_id>>)>>,
              engine |-> IF delivered
                         THEN <<[tool |-> "apply_rebalance", ret |-> o.ret]>> ELSE <<>>]
    ELSE [st |-> st,
          execution |-> <<[success |-> TRUE, rebalance_id |-> review_id,
                           changes_applied |-> Len(changes)]>>,
          rpc |-> <<>>, engine |-> <<>>]

process_investment_review(st, review_id, use_mcp_calls, wired, peers) ==
    LET portfolio_state ==
            IF use_mcp_calls
            THEN call_mcp_tool(wired, "execution", "get_portfolio_state",
                               get_portfolio_state(st))
            ELSE MockPortfolio
        portfolio_analysis ==
            IF use_mcp_calls
            THEN call_mcp_tool(wired, "portfolio_analytics", "evaluate_portfolio",
                               [portfolio_health |-> peers.health])
            ELSE [portfolio_health |-> "GOOD", health_score |-> 720,
                  rebalancing_needed |-> TRUE]
        macro_analysis ==
            IF use_mcp_calls
            THEN call_mcp_tool(wired, "macro", "analyze_macro",
                               [investment_stance |-> peers.stance])
            ELSE [market_regime |-> "BULL", risk_environment |-> "FAVORABLE",
                  investment_stance |-> "BALANCED", confidence |-> 750]
        keys == Keys(Get(portfolio_state, "positions", <<>>))
        read == IF use_mcp_calls /\ "execution" \in wired
                THEN <<[tool |-> "get_portfolio_state", ret |-> portfolio_state]>>
                ELSE <<>>
        gathered == IF use_mcp_calls
                    THEN <<Rpc("execution", "get_portfolio_state", <<>>),
                           Rpc("portfolio_analytics", "evaluate_portfolio", <<>>),
                           Rpc("macro", "analyze_macro", <<>>)>>
                         \o [i \in DOMAIN keys |->
                                Rpc("fundamental", "analyze_fundamentals", <<>>)]
                    ELSE <<>>
        target_allocation == calculate_target_allocation(macro_analysis, portfolio_state)
        b == build_rebalance_changes(portfolio_state, target_allocation)
        changes == b.changes
        total_value == Get(portfolio_state, "total_value", 100000)
        failed == Run(st, read, <<>>, gathered,
                      [success |-> FALSE, review_id |-> review_id,
                       error |-> "Error processing investment review"])
    IN  IF b.raised THEN failed
        ELSE IF changes = <<>>
        THEN Run(st, read, <<>>, gathered,
                 [success |-> TRUE, review_id |-> review_id,
                  action_taken |-> "NO_REBALANCE",
                  reason |-> "Portfolio allocation within tolerance",
                  portfolio_analysis |-> portfolio_analysis,
                  macro_analysis |-> macro_analysis])
        ELSE IF total_value = 0
        THEN failed     \* total_turnover / total_value raises
        ELSE LET total_turnover ==
                     SumOver([i \in DOMAIN changes |-> changes[i].value], DOMAIN changes)
                 rebalance_proposal ==
                     [review_id |-> review_id, proposal_type |-> "rebalance",
                      changes |-> changes, total_turnover |-> total_turnover,
                      target_allocation |-> target_allocation]
                 peer_verdict == validate_rebalance(changes, total_value, MAX_TURNOVER_PCT)
                 risk_validation ==
                     IF use_mcp_calls
                     THEN call_mcp_tool(wired, "risk", "validate_rebalance", peer_verdict)
                     ELSE [approved |-> TRUE, risk_score |-> 250, violations |-> <<>>,
                           reason |-> "Approved - rebalance within limits"]
                 approved == Get(risk_validation, "approved", FALSE)
                 x == RebalanceExecution(st, approved, use_mcp_calls, wired, review_id,
                                         changes, risk_validation)
             IN  Run(x.st,
                     IF x.engine # <<>> THEN x.engine ELSE read,
                     IF use_mcp_calls /\ "risk" \in wired
                     THEN <<[proposal |-> [changes |-> changes,
                                           total_value |-> total_value,
                                           max_turnover_pct |-> MAX_TURNOVER_PCT],
                             verdict |-> peer_verdict]>>
                     ELSE <<>>,
                     gathered
                       \o (IF use_mcp_calls
                           THEN <<Rpc("risk", "validate_rebalance", <<>>)>> ELSE <<>>)
                       \o x.rpc,
                     [success |-> approved /\ (IF x.execution # <<>>
                                               THEN Get(x.execution[1], "success", FALSE)
                                               ELSE FALSE),
                      review_id |-> review_id,
                      action_taken |-> IF approved THEN "REBALANCED" ELSE "REJECTED",
                      portfolio_analysis |-> portfolio_analysis,
                      macro_analysis |-> macro_analysis,
                      rebalance_proposal |-> rebalance_proposal,
                      risk_validation |-> risk_validation,
                      execution |-> x.execution])

\* The inputs of SpecPipe.  At the price 100 a trade of 48 is 4.8% of the
\* default portfolio and one of 240 is 24%; the peers' answers reach each
\* action and a confidence on either side of the policy's minimum.
MaxCallsPipe == 2

PipeQuantities == {48, 240}

TradePeers ==
    [price : {100},
     technical : {[signal |-> "BUY", confidence |-> 720],
                  [signal |-> "HOLD", confidence |-> 300]},
     volatility : {[volatility |-> 350, risk_level |-> "MEDIUM", risk_score |-> 450],
                   [volatility |-> 750, risk_level |-> "HIGH", risk_score |-> 900]},
     sentiment : {[sentiment |-> "POSITIVE", score |-> 680, confidence |-> 650],
                  [sentiment |-> "NEGATIVE", score |-> 300, confidence |-> 650]}]

ReviewPeers == [stance : {"AGGRESSIVE", "BALANCED", "DEFENSIVE"}, health : {"GOOD"}]

\* the wirings and answers that a run can tell apart: a mock run makes no
\* call, and a run whose calls do not reach the peers never sees an answer
Wirings(use_mcp_calls) == IF use_mcp_calls THEN WiredSets ELSE {{}}

Answers(wired, peers) ==
    IF IntelServers \subseteq wired THEN peers ELSE {CHOOSE p \in peers : TRUE}

InputsPipe ==
    [Syms |-> {"A"}, Qtys |-> {600, 685}, Prcs |-> {100}, Lists |-> {<<>>},
     Cash |-> {DefaultCash}, Calls |-> MaxCallsPipe]

----------------------------------------------------------------------------
(* The compliance server: AUDIT_LOG and the tools that write it.  issued    *)
(* keeps, in order of issue, the event_id of every log_event call since the *)
(* process started; the code keeps no such list.                            *)

MaxEvents == 4              \* log_event calls in one run (SpecAudit)

\* the decimal digits of n, most significant first
RECURSIVE Digits(_)
Digits(n) == IF n < 10 THEN <<n>> ELSE Append(Digits(n \div 10), n % 10)

\* "{n:06d}": the digits of n, padded with zeros on the left to six
ZeroPad6(n) ==
    LET d == Digits(n)
    IN  IF Len(d) >= 6 THEN d ELSE [i \in 1..(6 - Len(d)) |-> 0] \o d

\* f"EVT_{n:06d}"
EventId(n) == [prefix |-> "EVT_", digits |-> ZeroPad6(n)]

\* log_event: the event is numbered by the length of AUDIT_LOG plus one
log_event(log, event_type, agent_name, action, details, severity) ==
    LET event == [event_id |-> EventId(Len(log) + 1), event_type |-> event_type,
                  agent_name |-> agent_name, action |-> action, details |-> details,
                  severity |-> severity]
    IN  [log |-> Append(log, event),
         ret |-> [success |-> TRUE, event_id |-> event.event_id,
                  total_events |-> Len(log) + 1]]

clear_audit_log(log) ==
    [log |-> <<>>, ret |-> [success |-> TRUE, events_cleared |-> Len(log)]]

EventTypes == {"proposal", "risk_decision", "execution"}

InitCompliance ==
    /\ AUDIT_LOG = <<>>
    /\ issued = <<>>

LogEvent ==
    \E event_type \in EventTypes, agent_name \in {"trading-supervisor"},
       action \in {"process_trade_request"}, details \in {[trade_id |-> "TRD_1"]},
       severity \in {"info"} :
        /\ Len(issued) < MaxEvents
        /\ LET o == log_event(AUDIT_LOG, event_type, agent_name, action, details,
                              severity)
           IN  /\ AUDIT_LOG' = o.log
               /\ issued' = Append(issued, o.ret.event_id)
        /\ UNCHANGED <<engineVars, riskVars, pipeVars, threadVars, gatewayVars,
                       marketVars>>

ClearAuditLog ==
    /\ AUDIT_LOG' = clear_audit_log(AUDIT_LOG).log
    /\ UNCHANGED <<issued, engineVars, riskVars, pipeVars, threadVars, gatewayVars,
                   marketVars>>

NextAudit ==
    \/ LogEvent
    \/ ClearAuditLog

----------------------------------------------------------------------------
(* The notification gateway (mcp-servers/notification-gateway/server.py):   *)
(* the alert table, the monitor thread and the delivery channels.           *)
(*                                                                          *)
(* ACTIVE_ALERTS is a Python dict: a list of entries [k, v] in insertion    *)
(* order, where v is the reference of an alert dict in heap.  A list such   *)
(* as `active` holds references, so it still reaches a dict that has been   *)
(* deleted from the table.  A tool handler runs on the server's thread, one *)
(* call at a time; each monitor loop is a threading.Thread of its own, and  *)
(* the two share the module's globals without a lock.  A step of the model  *)
(* is a run of statements between two blocking calls (a quote request, a    *)
(* delivery, a file write, the sleep).  The wall-clock fields of an alert   *)
(* (created_at, last_checked, triggered_at) and of a log entry are left     *)
(* out; the clock is kept for the second that an alert_id carries.  A call  *)
(* that can raise (a reply that is no JSON object, a quote that is no       *)
(* number, a file that cannot be written) either returns or raises.         *)

MaxAlerts == 1              \* alert dicts created in one process
MaxLoops == 2               \* monitor threads started in one process
MaxClock == 1               \* seconds the clock advances
MaxBoots == 1               \* restarts of the process
MaxTicks == 1               \* ticks the monitor threads begin

_MAX_LOG == 50

MAX_HISTORY == 200

AlertSymbols == {"A"}
AlertUsers == {"u"}
Conditions == {"above", "below", "crosses_above", "crosses_below"}
Crossing == {"crosses_above", "crosses_below"}
Thresholds == {2}
Quotes == {0, 1, 3}
Intervals == {5}

\* dict operations on a list of entries
DictKeys(d) == {d[i].k : i \in DOMAIN d}

\* d[key] = val: an existing key keeps its place
DictSet(d, key, val) ==
    IF key \in DictKeys(d)
    THEN [i \in DOMAIN d |-> IF d[i].k = key THEN [k |-> key, v |-> val] ELSE d[i]]
    ELSE Append(d, [k |-> key, v |-> val])

DictPop(d, key) == SelectSeq(d, LAMBDA e : e.k # key)

DictValues(d) == [i \in DOMAIN d |-> d[i].v]

\* Python truth of an optional number: None and 0 are false
Truthy(x) == x # <<>> /\ x[1] # 0

\* json.dump(ACTIVE_ALERTS): every key with the contents of its dict
_save_alerts(alerts, hp) ==
    [i \in DOMAIN alerts |-> [k |-> alerts[i].k, v |-> hp[alerts[i].v]]]

\* json.load: a fresh dict for every key of the document, in its order
_load_alerts(file) ==
    [alerts |-> [i \in DOMAIN file |-> [k |-> file[i].k, v |-> i]],
     heap |-> [i \in DOMAIN file |-> file[i].v]]

_check_condition_always(condition, price, threshold, prev_price) ==
    \/ condition = "above" /\ price > threshold
    \/ condition = "below" /\ price < threshold
    \/ condition = "crosses_above" /\ threshold < price
    \/ condition = "crosses_below" /\ threshold > price
_check_condition(condition, price, threshold, prev_price) ==
    \/ condition = "above" /\ price > threshold
    \/ condition = "below" /\ price < threshold
    \/ /\ condition = "crosses_above"
       /\ Truthy(prev_price)
       /\ prev_price[1] <= threshold /\ threshold < price
    \/ /\ condition = "crosses_below"
       /\ Truthy(prev_price)
       /\ prev_price[1] >= threshold /\ threshold > price

\* f"{user_id}_{symbol}_{int(datetime.now().timestamp())}"; the names of the
\* model hold no underscore, so the three parts determine the string
AlertId(user_id, symbol, t) == <<user_id, "_", symbol, "_", t>>

\* [a for a in ACTIVE_ALERTS.values() if not a.get("triggered")]
Untriggered(alerts, hp) ==
    SelectSeq(DictValues(alerts), LAMBDA r : ~Get(hp[r], "triggered", FALSE))

\* the table as one value: the dict, the alert dicts and the JSON document
Table(alerts, hp, file) == [alerts |-> alerts, heap |-> hp, file |-> file]

CurrentTable == Table(ACTIVE_ALERTS, heap, ALERTS_FILE)

\* create_price_alert up to _save_alerts (lines 445-452) and its return; the
\* return's monitor_running and check_interval are not modelled
create_price_alert(tb, symbol, condition, threshold, user_id, t) ==
    LET alert_id == AlertId(user_id, symbol, t)
        alert == [alert_id |-> alert_id, user_id |-> user_id, symbol |-> symbol,
                  condition |-> condition, threshold |-> threshold,
                  triggered |-> FALSE, trigger_count |-> 0, last_price |-> <<>>]
        hp == Append(tb.heap, alert)
        alerts == DictSet(tb.alerts, alert_id, Len(hp))
    IN  [tb |-> Table(alerts, hp, _save_alerts(alerts, hp)),
         ret |-> [success |-> TRUE, alert_id |-> alert_id,
                  total_active_alerts |-> Len(Untriggered(alerts, hp))]]

delete_price_alert(tb, alert_id) ==
    IF alert_id \notin DictKeys(tb.alerts)
    THEN [tb |-> tb, ret |-> [error |-> "not found"]]
    ELSE LET alerts == DictPop(tb.alerts, alert_id)
         IN  [tb |-> Table(alerts, tb.heap, _save_alerts(alerts, tb.heap)),
              ret |-> [success |-> TRUE,
                       remaining |-> Len(Untriggered(alerts, tb.heap))]]

list_price_alerts(tb, running, user_id, active_only) ==
    LET all == [i \in DOMAIN tb.alerts |-> tb.heap[tb.alerts[i].v]]
        mine == IF user_id # "" THEN SelectSeq(all, LAMBDA a : a.user_id = user_id)
                ELSE all
        alerts == IF active_only
                  THEN SelectSeq(mine, LAMBDA a : ~Get(a, "triggered", FALSE))
                  ELSE mine
    IN  [total |-> Len(alerts), alerts |-> alerts, monitor_running |-> running]

\* a monitor thread that has been started and has not yet run a statement
NewLoop == [pc |-> "L284", active |-> <<>>, prices |-> <<>>, i |-> 1]

\* _ensure_monitor: a new thread unless the flag says a loop is running
_ensure_monitor(running, lps) == IF ~running THEN Append(lps, NewLoop) ELSE lps

\* lines 303-306 and 510-513
Fire(alert, price) ==
    Put([alert EXCEPT !.triggered = TRUE,
                      !.trigger_count = Get(alert, "trigger_count", 0) + 1],
        "triggered_price", price)

\* lines 298-306 and 506-513: the evaluation of active[i] against its quote
Evaluate(hp, fr) ==
    LET ref == fr.active[fr.i]
        alert == hp[ref]
        sym == alert.symbol
    IN  IF sym \notin DOMAIN fr.prices
        THEN [heap |-> hp, quoted |-> FALSE, fired |-> FALSE]
        ELSE IF _check_condition(alert.condition, fr.prices[sym], alert.threshold,
                                 Get(alert, "last_price", <<>>))
             THEN [heap |-> [hp EXCEPT ![ref] = Fire(alert, fr.prices[sym])],
                   quoted |-> TRUE, fired |-> TRUE]
             ELSE [heap |-> hp, quoted |-> TRUE, fired |-> FALSE]

\* lines 314-315 and 518-519
Observe(hp, fr) ==
    LET ref == fr.active[fr.i]
        price == fr.prices[hp[ref].symbol]
    IN  [hp EXCEPT ![ref] = [@ EXCEPT !.last_price = <<price>>]]

\* the quotes a round of get_live_price calls can bring: a price for some of
\* the symbols, none for those whose call failed
QuoteMaps(hp, active) ==
    LET symbols == {hp[active[i]].symbol : i \in DOMAIN active}
    IN  UNION {[S -> Quotes] : S \in SUBSET symbols}

\* _log_notification: the record is appended and the oldest dropped past the cap
_log_notification(history, notification) ==
    LET h == Append(history, notification)
    IN  IF Len(h) > MAX_HISTORY THEN Tail(h) ELSE h

Idle == [pc |-> "idle", active |-> <<>>, prices |-> <<>>, i |-> 1,
         triggered_list |-> <<>>]

\* the state of a process that has just imported the module with the file as
\* given; Init is the first start, on a machine with no alerts_data.json
InitAlerts ==
    /\ ALERTS_FILE = <<>>
    /\ ACTIVE_ALERTS = _load_alerts(ALERTS_FILE).alerts
    /\ heap = _load_alerts(ALERTS_FILE).heap
    /\ _monitor_running = FALSE
    /\ _monitor_interval = 60
    /\ loops = <<>>
    /\ handler = Idle
    /\ reply = <<>>
    /\ now = 0
    /\ broadcasts = <<>>
    /\ boots = 0
    /\ stopped = FALSE
    /\ _monitor_log = <<>>
    /\ ticks = 0
    /\ NOTIFICATION_HISTORY = <<>>

InitGateway ==
    /\ InitAlerts
    /\ config = {}

notGateway == <<engineVars, riskVars, pipeVars, threadVars, complianceVars,
                marketVars>>

\* a tool call is accepted when the server's thread is free
Free == handler.pc = "idle"

CreatePriceAlert ==
    \E symbol \in AlertSymbols, condition \in Conditions, threshold \in Thresholds,
       user_id \in AlertUsers :
        /\ Free
        /\ Len(heap) < MaxAlerts
        /\ Len(_ensure_monitor(_monitor_running, loops)) <= MaxLoops
        /\ LET o == create_price_alert(CurrentTable, symbol, condition, threshold,
                                       user_id, now)
           IN  /\ ACTIVE_ALERTS' = o.tb.alerts
               /\ heap' = o.tb.heap
               /\ ALERTS_FILE' = o.tb.file
               /\ reply' = [tool |-> "create_price_alert"] @@ o.ret
        /\ broadcasts' = Append(broadcasts, 0)
        /\ loops' = _ensure_monitor(_monitor_running, loops)
        /\ stopped' = FALSE
        /\ UNCHANGED <<_monitor_running, _monitor_interval, handler, now, boots,
                       logVars,
                   notifyVars, notGateway>>

DeletePriceAlert ==
    \E alert_id \in DictKeys(ACTIVE_ALERTS) \cup {AlertId("u", "A", MaxClock + 1)} :
        /\ Free
        /\ LET o == delete_price_alert(CurrentTable, alert_id)
           IN  /\ ACTIVE_ALERTS' = o.tb.alerts
               /\ ALERTS_FILE' = o.tb.file
               /\ reply' = [tool |-> "delete_price_alert"] @@ o.ret
        /\ UNCHANGED <<heap, _monitor_running, _monitor_interval, loops, handler, now,
                       broadcasts, boots, stopped, logVars,
                   notifyVars, notGateway>>

StartMonitor ==
    \E interval \in Intervals :
        /\ Free
        /\ IF _monitor_running
           THEN /\ reply' = [tool |-> "start_monitor", message |-> "Already running"]
                /\ UNCHANGED <<_monitor_interval, loops>>
           ELSE /\ Len(loops) < MaxLoops
                /\ _monitor_interval' = (IF interval > 10 THEN interval ELSE 10)
                /\ loops' = _ensure_monitor(_monitor_running, loops)
                /\ reply' = [tool |-> "start_monitor", success |-> TRUE]
        /\ stopped' = FALSE
        /\ UNCHANGED <<ACTIVE_ALERTS, heap, ALERTS_FILE, _monitor_running, handler, now,
                       broadcasts, boots, logVars,
                   notifyVars, notGateway>>

StopMonitor ==
    /\ Free
    /\ IF ~_monitor_running
       THEN /\ reply' = [tool |-> "stop_monitor", message |-> "Not running"]
            /\ UNCHANGED <<_monitor_running, stopped>>
       ELSE /\ _monitor_running' = FALSE
            /\ reply' = [tool |-> "stop_monitor", success |-> TRUE]
            /\ stopped' = TRUE
    /\ UNCHANGED <<ACTIVE_ALERTS, heap, ALERTS_FILE, _monitor_interval, loops, handler,
                   now, broadcasts, boots, logVars,
                   notifyVars, notGateway>>

\* check_alerts_now, lines 492-494: the snapshot of the untriggered alerts
CheckAlertsNow ==
    /\ Free
    /\ LET active == Untriggered(ACTIVE_ALERTS, heap)
       IN  IF active = <<>>
           THEN /\ reply' = [tool |-> "check_alerts_now", checked |-> 0]
                /\ UNCHANGED handler
           ELSE /\ handler' = [Idle EXCEPT !.pc = "L501", !.active = active]
                /\ UNCHANGED reply
    /\ UNCHANGED <<ACTIVE_ALERTS, heap, ALERTS_FILE, _monitor_running,
                   _monitor_interval, loops, now, broadcasts, boots, stopped,
                   logVars,
                   notifyVars, notGateway>>

\* lines 501-503: the quotes
Line501 ==
    /\ handler.pc = "L501"
    /\ \E prices \in QuoteMaps(heap, handler.active) :
        handler' = [handler EXCEPT !.pc = "L505", !.prices = prices]
    /\ UNCHANGED <<ACTIVE_ALERTS, heap, ALERTS_FILE, _monitor_running,
                   _monitor_interval, loops, reply, now, broadcasts, boots,
                   stopped, logVars,
                   notifyVars, notGateway>>

\* lines 505-513: the next alert of the snapshot
Line505 ==
    /\ handler.pc = "L505"
    /\ IF handler.i > Len(handler.active)
       THEN /\ handler' = [handler EXCEPT !.pc = "L521"]
            /\ UNCHANGED heap
       ELSE LET e == Evaluate(heap, handler)
            IN  /\ heap' = e.heap
                /\ handler' = [handler EXCEPT
                                 !.pc = IF e.fired THEN "L516"
                                        ELSE IF e.quoted THEN "L518" ELSE "L505",
                                 !.i = IF e.quoted THEN @ ELSE @ + 1]
    /\ UNCHANGED <<ACTIVE_ALERTS, ALERTS_FILE, _monitor_running, _monitor_interval,
                   loops, reply, now, broadcasts, boots, stopped,
                   logVars,
                   notifyVars, notGateway>>

\* lines 514-517: the broadcast of a fired alert
Line516 ==
    /\ handler.pc = "L516"
    /\ LET ref == handler.active[handler.i]
       IN  /\ broadcasts' = [broadcasts EXCEPT ![ref] = @ + 1]
           /\ handler' = [handler EXCEPT
                            !.pc = "L518",
                            !.triggered_list = Append(@, heap[ref].alert_id)]
    /\ UNCHANGED <<ACTIVE_ALERTS, heap, ALERTS_FILE, _monitor_running,
                   _monitor_interval, loops, reply, now, boots, stopped,
                   logVars,
                   notifyVars, notGateway>>

\* lines 518-519
Line518 ==
    /\ handler.pc = "L518"
    /\ heap' = Observe(heap, handler)
    /\ handler' = [handler EXCEPT !.pc = "L505", !.i = @ + 1]
    /\ UNCHANGED <<ACTIVE_ALERTS, ALERTS_FILE, _monitor_running, _monitor_interval,
                   loops, reply, now, broadcasts, boots, stopped,
                   logVars,
                   notifyVars, notGateway>>

\* lines 521-522: the table is written and the call returns
Line521 ==
    /\ handler.pc = "L521"
    /\ ALERTS_FILE' = _save_alerts(ACTIVE_ALERTS, heap)
    /\ reply' = [tool |-> "check_alerts_now", checked |-> Len(handler.active),
                 triggered |-> handler.triggered_list,
                 triggered_count |-> Len(handler.triggered_list)]
    /\ handler' = Idle
    /\ UNCHANGED <<ACTIVE_ALERTS, heap, _monitor_running, _monitor_interval, loops,
                   now, broadcasts, boots, stopped, logVars,
                   notifyVars, notGateway>>

\* what a step of monitor thread t leaves alone besides the variables named
LoopFrame(t, next, rest) ==
    /\ loops' = [loops EXCEPT ![t] = next]
    /\ UNCHANGED rest
    /\ UNCHANGED <<handler, reply, now, boots, stopped, _monitor_interval,
                   config, notGateway>>

\* lines 319-320: the oldest entry is dropped when the log is past its cap
Trim(log) == IF Len(log) > _MAX_LOG THEN Tail(log) ELSE log

\* lines 321-323: an exception raised in the try block is logged, and the
\* thread goes to sleep
ExceptUncaught(t, rest) ==
    /\ UNCHANGED _monitor_log
    /\ LoopFrame(t, [loops[t] EXCEPT !.pc = "done"], rest)
Except(t, rest) ==
    /\ _monitor_log' = Append(_monitor_log, [event |-> "error"])
    /\ LoopFrame(t, [loops[t] EXCEPT !.pc = "L323"], rest)

\* line 284: the thread raises the flag
Line284(t) ==
    /\ t \in DOMAIN loops /\ loops[t].pc = "L284"
    /\ _monitor_running' = TRUE
    /\ LoopFrame(t, [loops[t] EXCEPT !.pc = "L285"],
                 <<ACTIVE_ALERTS, heap, ALERTS_FILE, broadcasts, NOTIFICATION_HISTORY,
                   logVars>>)

\* line 285: the flag is polled, and a tick begins if it is up
Line285(t) ==
    /\ t \in DOMAIN loops /\ loops[t].pc = "L285"
    /\ IF _monitor_running
       THEN /\ ticks < MaxTicks
            /\ ticks' = ticks + 1
            /\ LoopFrame(t, [loops[t] EXCEPT !.pc = "L287"],
                         <<ACTIVE_ALERTS, heap, ALERTS_FILE, _monitor_running,
                           broadcasts, NOTIFICATION_HISTORY, _monitor_log>>)
       ELSE LoopFrame(t, [loops[t] EXCEPT !.pc = "L324"],
                      <<ACTIVE_ALERTS, heap, ALERTS_FILE, _monitor_running,
                        broadcasts, NOTIFICATION_HISTORY, logVars>>)

\* lines 287-288: the snapshot of the untriggered alerts
Line287(t) ==
    /\ t \in DOMAIN loops /\ loops[t].pc = "L287"
    /\ LET active == Untriggered(ACTIVE_ALERTS, heap)
       IN  LoopFrame(t, [loops[t] EXCEPT !.pc = IF active # <<>> THEN "L292" ELSE "L323",
                                         !.active = active, !.prices = <<>>, !.i = 1],
                     <<ACTIVE_ALERTS, heap, ALERTS_FILE, _monitor_running, broadcasts,
                       NOTIFICATION_HISTORY, logVars>>)

\* lines 289-295: the quotes; `"price" in r` raises when the reply's text is
\* JSON but no object
Line292(t) ==
    /\ t \in DOMAIN loops /\ loops[t].pc = "L292"
    /\ \/ \E prices \in QuoteMaps(heap, loops[t].active) :
            LoopFrame(t, [loops[t] EXCEPT !.pc = "L297", !.prices = prices],
                      <<ACTIVE_ALERTS, heap, ALERTS_FILE, _monitor_running, broadcasts,
                        NOTIFICATION_HISTORY, logVars>>)
       \/ Except(t, <<ACTIVE_ALERTS, heap, ALERTS_FILE, _monitor_running, broadcasts,
                      NOTIFICATION_HISTORY, ticks>>)

\* _check_condition compares the quote: with "above" and "below" always, with
\* a crossing when the alert has a last_price that is true
Compares(alert) ==
    alert.condition \notin Crossing \/ Truthy(Get(alert, "last_price", <<>>))

\* lines 297-306: the next alert of the snapshot; the comparison raises when
\* the quote is no number
Line297(t) ==
    /\ t \in DOMAIN loops /\ loops[t].pc = "L297"
    /\ IF loops[t].i > Len(loops[t].active)
       THEN LoopFrame(t, [loops[t] EXCEPT !.pc = "L317"],
                      <<ACTIVE_ALERTS, heap, ALERTS_FILE, _monitor_running, broadcasts,
                        NOTIFICATION_HISTORY, logVars>>)
       ELSE LET e == Evaluate(heap, loops[t])
            IN  \/ /\ heap' = e.heap
                   /\ LoopFrame(t, [loops[t] EXCEPT
                                      !.pc = IF e.fired THEN "L310"
                                             ELSE IF e.quoted THEN "L314" ELSE "L297",
                                      !.i = IF e.quoted THEN @ ELSE @ + 1],
                                <<ACTIVE_ALERTS, ALERTS_FILE, _monitor_running,
                                  broadcasts, NOTIFICATION_HISTORY, logVars>>)
                \/ /\ e.quoted
                   /\ Compares(heap[loops[t].active[loops[t].i]])
                   /\ Except(t, <<ACTIVE_ALERTS, heap, ALERTS_FILE, _monitor_running,
                                  broadcasts, NOTIFICATION_HISTORY, ticks>>)

\* lines 308-312: the broadcast of a fired alert, its notification record and
\* its log entry; the broadcast raises when the day's alert log cannot be
\* written, _log_notification when notifications.jsonl cannot, after it has
\* appended the record
Line310(t) ==
    /\ t \in DOMAIN loops /\ loops[t].pc = "L310"
    /\ LET ref == loops[t].active[loops[t].i]
           sent == [broadcasts EXCEPT ![ref] = @ + 1]
           history == _log_notification(NOTIFICATION_HISTORY,
                                        [channel |-> "alert_trigger",
                                         severity |-> "critical", delivered |-> TRUE])
       IN  \/ /\ broadcasts' = sent
              /\ NOTIFICATION_HISTORY' = history
              /\ _monitor_log' = Append(_monitor_log, [event |-> "triggered"])
              /\ LoopFrame(t, [loops[t] EXCEPT !.pc = "L314"],
                           <<ACTIVE_ALERTS, heap, ALERTS_FILE, _monitor_running, ticks>>)
           \/ /\ broadcasts' = sent
              /\ NOTIFICATION_HISTORY' = history
              /\ Except(t, <<ACTIVE_ALERTS, heap, ALERTS_FILE, _monitor_running, ticks>>)
           \/ Except(t, <<ACTIVE_ALERTS, heap, ALERTS_FILE, _monitor_running,
                          broadcasts, NOTIFICATION_HISTORY, ticks>>)

\* lines 314-315
Line314(t) ==
    /\ t \in DOMAIN loops /\ loops[t].pc = "L314"
    /\ heap' = Observe(heap, loops[t])
    /\ LoopFrame(t, [loops[t] EXCEPT !.pc = "L297", !.i = @ + 1],
                 <<ACTIVE_ALERTS, ALERTS_FILE, _monitor_running, broadcasts,
                   NOTIFICATION_HISTORY, logVars>>)

\* lines 317-320: the table is written and the tick logged; _save_alerts
\* raises when alerts_data.json cannot be opened for writing
Line317(t) ==
    /\ t \in DOMAIN loops /\ loops[t].pc = "L317"
    /\ \/ /\ ALERTS_FILE' = _save_alerts(ACTIVE_ALERTS, heap)
          /\ _monitor_log' = Trim(Append(_monitor_log, [event |-> "check"]))
          /\ LoopFrame(t, [loops[t] EXCEPT !.pc = "L323"],
                       <<ACTIVE_ALERTS, heap, _monitor_running, broadcasts,
                         NOTIFICATION_HISTORY, ticks>>)
       \/ Except(t, <<ACTIVE_ALERTS, heap, ALERTS_FILE, _monitor_running, broadcasts,
                      NOTIFICATION_HISTORY, ticks>>)

\* line 323: the sleep is over
Line323(t) ==
    /\ t \in DOMAIN loops /\ loops[t].pc = "L323"
    /\ LoopFrame(t, [loops[t] EXCEPT !.pc = "L285"],
                 <<ACTIVE_ALERTS, heap, ALERTS_FILE, _monitor_running, broadcasts,
                   NOTIFICATION_HISTORY, logVars>>)

\* line 324: the loop is left and the flag lowered
Line324(t) ==
    /\ t \in DOMAIN loops /\ loops[t].pc = "L324"
    /\ _monitor_running' = FALSE
    /\ LoopFrame(t, [loops[t] EXCEPT !.pc = "done"],
                 <<ACTIVE_ALERTS, heap, ALERTS_FILE, broadcasts, NOTIFICATION_HISTORY,
                   logVars>>)

\* a step of monitor thread t
MonitorLoop(t) ==
    \/ Line284(t)
    \/ Line285(t)
    \/ Line287(t)
    \/ Line292(t)
    \/ Line297(t)
    \/ Line310(t)
    \/ Line314(t)
    \/ Line317(t)
    \/ Line323(t)
    \/ Line324(t)

\* a second of wall-clock time passes
ClockTick ==
    /\ now < MaxClock
    /\ now' = now + 1
    /\ UNCHANGED <<ACTIVE_ALERTS, heap, ALERTS_FILE, _monitor_running,
                   _monitor_interval, loops, handler, reply, broadcasts, boots,
                   stopped, logVars, notifyVars, notGateway>>

\* the process is stopped and started again: its threads and globals are gone
\* and the module is imported anew, which loads the table from the file
Restart ==
    /\ boots < MaxBoots
    /\ boots' = boots + 1
    /\ ACTIVE_ALERTS' = _load_alerts(ALERTS_FILE).alerts
    /\ heap' = _load_alerts(ALERTS_FILE).heap
    /\ broadcasts' = [i \in DOMAIN ALERTS_FILE |-> 0]
    /\ _monitor_running' = FALSE
    /\ _monitor_interval' = 60
    /\ loops' = <<>>
    /\ handler' = Idle
    /\ reply' = <<>>
    /\ stopped' = FALSE
    /\ NOTIFICATION_HISTORY' = <<>>
    /\ _monitor_log' = <<>>
    /\ UNCHANGED <<ALERTS_FILE, now, ticks, config, notGateway>>

NextAlerts ==
    \/ CreatePriceAlert
    \/ DeletePriceAlert
    \/ StopMonitor
    \/ CheckAlertsNow
    \/ Line501
    \/ Line505
    \/ Line516
    \/ Line518
    \/ Line521
    \/ \E t \in 1..MaxLoops : MonitorLoop(t)
    \/ ClockTick
    \/ Restart

NextMonitor ==
    \/ CreatePriceAlert
    \/ StartMonitor
    \/ StopMonitor
    \/ \E t \in 1..MaxLoops : MonitorLoop(t)

\* the monitor alone: no tool call touches the alert table
NextTicks ==
    \/ StartMonitor
    \/ StopMonitor
    \/ \E t \in 1..MaxLoops : MonitorLoop(t)

\* the gateway after create_price_alert("A", "above", 2, "u") and n ticks that
\* each brought the quote 1: the alert has not fired, each tick has written
\* the table and logged a "check", and the thread is asleep
QuietTicks(n) ==
    LET made == create_price_alert(Table(<<>>, <<>>, <<>>), "A", "above", 2, "u", 0)
        hp == [made.tb.heap EXCEPT ![1].last_price = <<1>>]
        log == [i \in 1..n |-> [event |-> "check"]]
    IN  /\ ACTIVE_ALERTS = made.tb.alerts
        /\ heap = hp
        /\ ALERTS_FILE = _save_alerts(made.tb.alerts, hp)
        /\ _monitor_running = TRUE
        /\ _monitor_interval = 60
        /\ loops = <<[pc |-> "L323", active |-> <<1>>, prices |-> [A |-> 1], i |-> 2]>>
        /\ handler = Idle
        /\ reply = [tool |-> "create_price_alert"] @@ made.ret
        /\ now = 0
        /\ broadcasts = <<0>>
        /\ boots = 0
        /\ stopped = FALSE
        /\ _monitor_log = log
        /\ ticks = 0
        /\ NOTIFICATION_HISTORY = <<>>
        /\ config = {}

\* the delivery channels: what the environment configures (lines 51-60; SMTP
\* stands for SMTP_HOST and SMTP_USER together) and, for a send, whether each
\* HTTP channel's request is answered with a success status
ChannelEnv == {"DISCORD_WEBHOOK_URL", "SLACK_WEBHOOK_URL", "SLACK_BOT_TOKEN",
               "NOTIFICATION_WEBHOOK_URL", "SMTP"}

Deliveries == [{"discord", "slack", "webhook"} -> BOOLEAN]

MaxSends == 2               \* send_alert calls in one run (SpecNotify)

_send_file_log == [success |-> TRUE, channel |-> "file"]

_send_discord(cfg, ok) ==
    IF "DISCORD_WEBHOOK_URL" \notin cfg
    THEN [success |-> FALSE, channel |-> "discord"]
    ELSE [success |-> ok, channel |-> "discord"]

_send_slack(cfg, ok) ==
    IF "SLACK_WEBHOOK_URL" \in cfg \/ "SLACK_BOT_TOKEN" \in cfg
    THEN [success |-> ok, channel |-> "slack"]
    ELSE [success |-> FALSE, channel |-> "slack"]

_send_webhook(cfg, ok) ==
    IF "NOTIFICATION_WEBHOOK_URL" \notin cfg
    THEN [success |-> FALSE, channel |-> "webhook"]
    ELSE [success |-> ok, channel |-> "webhook"]

\* _broadcast: the file, then each HTTP channel whose setting is present
_broadcast(cfg, ok) ==
    LET attempted ==
            {"file"}
            \cup (IF "DISCORD_WEBHOOK_URL" \in cfg THEN {"discord"} ELSE {})
            \cup (IF "SLACK_WEBHOOK_URL" \in cfg \/ "SLACK_BOT_TOKEN" \in cfg
                  THEN {"slack"} ELSE {})
            \cup (IF "NOTIFICATION_WEBHOOK_URL" \in cfg THEN {"webhook"} ELSE {})
    IN  [c \in attempted |->
            CASE c = "file" -> _send_file_log
              [] c = "discord" -> _send_discord(cfg, ok[c])
              [] c = "slack" -> _send_slack(cfg, ok[c])
              [] c = "webhook" -> _send_webhook(cfg, ok[c])]

send_alert(cfg, ok, history, severity) ==
    LET results == _broadcast(cfg, ok)
        delivered == {c \in DOMAIN results : results[c].success}
    IN  [history |-> _log_notification(history,
                                       [channel |-> "broadcast", severity |-> severity,
                                        delivered |-> delivered # {}]),
         ret |-> [severity |-> severity,
                  channels_attempted |-> Cardinality(DOMAIN results),
                  channels_delivered |-> Cardinality(delivered),
                  results |-> results]]

\* get_notification_status: the channels the server reports as available
get_notification_status(cfg, history) ==
    LET channels ==
            [file |-> TRUE,
             discord |-> "DISCORD_WEBHOOK_URL" \in cfg,
             slack |-> "SLACK_WEBHOOK_URL" \in cfg \/ "SLACK_BOT_TOKEN" \in cfg,
             webhook |-> "NOTIFICATION_WEBHOOK_URL" \in cfg,
             email |-> "SMTP" \in cfg]
    IN  [channels |-> channels,
         available_count |-> Cardinality({c \in DOMAIN channels : channels[c]}),
         total_sent |-> Len(history)]

SendAlert ==
    \E ok \in Deliveries, severity \in {"info", "critical"} :
        /\ Free
        /\ Len(NOTIFICATION_HISTORY) < MaxSends
        /\ LET o == send_alert(config, ok, NOTIFICATION_HISTORY, severity)
           IN  /\ NOTIFICATION_HISTORY' = o.history
               /\ reply' = [tool |-> "send_alert"] @@ o.ret
        /\ UNCHANGED <<ACTIVE_ALERTS, heap, ALERTS_FILE, _monitor_running,
                       _monitor_interval, loops, handler, now, broadcasts, boots,
                       stopped, logVars, config, notGateway>>

GetNotificationStatus ==
    /\ Free
    /\ reply' = [tool |-> "get_notification_status"]
                    @@ get_notification_status(config, NOTIFICATION_HISTORY)
    /\ UNCHANGED <<ACTIVE_ALERTS, heap, ALERTS_FILE, _monitor_running,
                   _monitor_interval, loops, handler, now, broadcasts, boots, stopped,
                   logVars, notifyVars, notGateway>>

NextNotify ==
    \/ SendAlert
    \/ GetNotificationStatus

----------------------------------------------------------------------------
(* The market server's symbol conversion (mcp-servers/market/server.py).    *)
(* A string is the sequence of its characters.                              *)

MaxTokens == 4              \* pieces a requested symbol is put together from

\* str.upper, on the letters the requested symbols are written with
Upper(c) ==
    CASE c = "b" -> "B" [] c = "t" -> "T" [] c = "c" -> "C" [] c = "u" -> "U"
      [] c = "s" -> "S" [] c = "d" -> "D" [] OTHER -> c

\* the keys of crypto_map (lines 36-42); the value of a key is the key
\* followed by "-USD"
CryptoKeys ==
    {<<"B", "T", "C">>, <<"E", "T", "H">>, <<"S", "O", "L">>, <<"B", "N", "B">>,
     <<"X", "R", "P">>, <<"D", "O", "G", "E">>, <<"A", "D", "A">>,
     <<"A", "V", "A", "X">>, <<"D", "O", "T">>, <<"M", "A", "T", "I", "C">>,
     <<"L", "I", "N", "K">>, <<"U", "N", "I">>, <<"L", "T", "C">>, <<"B", "C", "H">>,
     <<"A", "L", "G", "O">>, <<"X", "L", "M">>, <<"N", "E", "A", "R">>,
     <<"A", "T", "O", "M">>, <<"I", "C", "P">>, <<"F", "I", "L">>}

USDT == <<"U", "S", "D", "T">>
DashUSD == <<"-", "U", "S", "D">>

crypto_map(key) == key \o DashUSD

\* str.endswith
EndsWith(str, suffix) ==
    /\ Len(str) >= Len(suffix)
    /\ SubSeq(str, Len(str) - Len(suffix) + 1, Len(str)) = suffix

\* str.replace(old, ""): every occurrence of old, found from the left and
\* without overlap, is taken out
RECURSIVE Remove(_, _)
Remove(str, old) ==
    IF Len(str) < Len(old) THEN str
    ELSE IF SubSeq(str, 1, Len(old)) = old
    THEN Remove(SubSeq(str, Len(old) + 1, Len(str)), old)
    ELSE <<Head(str)>> \o Remove(Tail(str), old)

_get_ticker_symbol(symbol) ==
    LET s == [i \in DOMAIN symbol |-> Upper(symbol[i])]
        base == Remove(s, USDT)
    IN  IF s \in CryptoKeys THEN crypto_map(s)
        ELSE IF EndsWith(s, USDT)
        THEN IF base \in CryptoKeys THEN crypto_map(base) ELSE base
        ELSE IF EndsWith(s, DashUSD) THEN s
        ELSE s

\* the symbols a client asks about: up to MaxTokens of these pieces in a row
Tokens ==
    {<<"B", "T", "C">>, <<"b", "t", "c">>, <<"T", "S", "L", "A">>, USDT,
     <<"u", "s", "d", "t">>, DashUSD, <<"U", "S">>, <<"D", "T">>}

RECURSIVE Join(_, _)
Join(l, i) == IF i > Len(l) THEN <<>> ELSE l[i] \o Join(l, i + 1)

RequestedSymbols ==
    {Join(l, 1) : l \in UNION {[1..k -> Tokens] : k \in 0..MaxTokens}}

InitMarket ==
    /\ requested \in RequestedSymbols
    /\ ticker = <<>>

\* a tool of the market server converts the symbol it is asked about
GetTicker ==
    /\ ticker = <<>>
    /\ ticker' = <<_get_ticker_symbol(requested)>>
    /\ UNCHANGED <<requested, engineVars, riskVars, pipeVars, threadVars,
                   complianceVars, gatewayVars>>

\* the client asks again, about the ticker it was given
AskAgain ==
    /\ ticker # <<>>
    /\ requested' = ticker[1]
    /\ ticker' = <<>>
    /\ UNCHANGED <<engineVars, riskVars, pipeVars, threadVars, complianceVars,
                   gatewayVars>>

NextMarket ==
    \/ GetTicker
    \/ AskAgain

----------------------------------------------------------------------------
(* The engine, one tool call at a time *)

InitEngine ==
    /\ cash = DefaultCash
    /\ positions = <<>>
    /\ transaction_history = <<>>
    /\ last_tool = "none"
    /\ result = [success |-> TRUE]
    /\ calls = 0

\* no request is being handled
InitThreads ==
    /\ pc = <<>>
    /\ req = <<>>
    /\ replies = <<>>

InitRisk ==
    /\ proposal = <<>>
    /\ verdict = <<>>

InitPipe ==
    /\ run = <<>>
    /\ rpc_log = <<>>

\* no symbol has been asked about: the empty string stands for none
Init ==
    /\ InitEngine
    /\ InitRisk
    /\ InitPipe
    /\ InitThreads
    /\ InitCompliance
    /\ InitGateway
    /\ requested = <<>>
    /\ ticker = <<>>

Install(tool, o) ==
    /\ calls' = calls + 1
    /\ UNCHANGED <<riskVars, pipeVars, serviceVars, threadVars>>
    /\ cash' = o.st.cash
    /\ positions' = o.st.positions
    /\ transaction_history' = o.st.transaction_history
    /\ last_tool' = tool
    /\ result' = o.ret

ExecuteTrade(in) ==
    \E trade_id \in TradeIds, symbol \in in.Syms, action \in DeclaredActions,
       quantity \in in.Qtys, price \in in.Prcs, approved \in BOOLEAN,
       risk_validation \in RiskValidations :
        /\ calls < in.Calls
        /\ Install("execute_trade",
                   execute_trade(Current, trade_id, symbol, action, quantity, price,
                                 approved, risk_validation))

ApplyRebalance(in) ==
    \E rebalance_id \in RebalanceIds, changes \in in.Lists, approved \in BOOLEAN,
       risk_validation \in RiskValidations :
        /\ calls < in.Calls
        /\ Install("apply_rebalance",
                   apply_rebalance(Current, rebalance_id, changes, approved,
                                   risk_validation))

GetPortfolioState(in) ==
    /\ calls < in.Calls
    /\ Install("get_portfolio_state", Outcome(Current, get_portfolio_state(Current)))

UpdatePositionPrices(in) ==
    \E S \in SUBSET in.Syms : \E price_updates \in [S -> in.Prcs] :
        /\ calls < in.Calls
        /\ Install("update_position_prices",
                   update_position_prices(Current, price_updates))

ResetPortfolio(in) ==
    \E initial_cash \in in.Cash :
        /\ calls < in.Calls
        /\ Install("reset_portfolio", reset_portfolio(initial_cash))

Next ==
    \/ ExecuteTrade(Inputs)
    \/ ApplyRebalance(Inputs)
    \/ GetPortfolioState(Inputs)
    \/ UpdatePositionPrices(Inputs)
    \/ ResetPortfolio(Inputs)

Spec == Init /\ [][Next]_vars

NextS4 ==
    \/ ExecuteTrade(InputsS4)
    \/ ApplyRebalance(InputsS4)
    \/ GetPortfolioState(InputsS4)
    \/ UpdatePositionPrices(InputsS4)
    \/ ResetPortfolio(InputsS4)

SpecS4 == Init /\ [][NextS4]_vars

NextHold ==
    \/ ExecuteTrade(InputsHold)
    \/ ApplyRebalance(InputsHold)
    \/ GetPortfolioState(InputsHold)
    \/ UpdatePositionPrices(InputsHold)
    \/ ResetPortfolio(InputsHold)

SpecHold == Init /\ [][NextHold]_vars

NextRisk == ValidateTrade

SpecRisk == Init /\ [][NextRisk]_vars

SpecAudit == Init /\ [][NextAudit]_vars

\* the gateway started in an environment that configures any of the channels
InitNotify ==
    /\ InitEngine
    /\ InitRisk
    /\ InitPipe
    /\ InitThreads
    /\ InitCompliance
    /\ InitAlerts
    /\ config \in SUBSET ChannelEnv
    /\ requested = <<>>
    /\ ticker = <<>>

SpecNotify == InitNotify /\ [][NextNotify]_vars

SpecAlerts == Init /\ [][NextAlerts]_vars

\* the monitor followed from its first quiet tick, or from the tick that
\* brings the log to one below its cap or to its cap
InitTicks ==
    /\ InitEngine
    /\ InitRisk
    /\ InitPipe
    /\ InitThreads
    /\ InitCompliance
    /\ \E n \in {1, _MAX_LOG - 1, _MAX_LOG} : QuietTicks(n)
    /\ requested = <<>>
    /\ ticker = <<>>

SpecTicks == InitTicks /\ [][NextTicks]_vars

\* the market server asked about any of the requested symbols
InitSymbols ==
    /\ InitEngine
    /\ InitRisk
    /\ InitPipe
    /\ InitThreads
    /\ InitCompliance
    /\ InitGateway
    /\ InitMarket

SpecMarket == InitSymbols /\ [][NextMarket]_vars

\* a started thread runs on: the scheduler gives it the processor, a quote
\* request returns or times out, and the sleep ends
SpecMonitor ==
    Init /\ [][NextMonitor]_vars /\ \A t \in 1..MaxLoops : WF_vars(MonitorLoop(t))

----------------------------------------------------------------------------
(* The supervisors over the engine and the risk server, one run at a time *)

\* log_compliance_event, the supervisors' helper: it prints a line and makes no
\* call, so the compliance server's log is what it was; every call of a run,
\* whatever its event_type, is this one
log_compliance_event(log, event_type, agent_name, details) == log

\* a run's effects: on the engine and the risk server where its calls reached
\* them, and the run's own trace and return value
InstallRun(p) ==
    /\ calls' = calls + 1
    /\ cash' = p.st.cash
    /\ positions' = p.st.positions
    /\ transaction_history' = p.st.transaction_history
    /\ last_tool' = IF p.engine = <<>> THEN last_tool ELSE p.engine[1].tool
    /\ result' = IF p.engine = <<>> THEN result ELSE p.engine[1].ret
    /\ proposal' = IF p.risk = <<>> THEN proposal ELSE p.risk[1].proposal
    /\ verdict' = IF p.risk = <<>> THEN verdict ELSE p.risk[1].verdict
    /\ run' = p.ret
    /\ rpc_log' = p.rpc
    /\ AUDIT_LOG' = log_compliance_event(AUDIT_LOG, "proposal", "supervisor", p.ret)
    /\ UNCHANGED <<threadVars, issued, gatewayVars, marketVars>>

\* uuid4: an identifier no earlier run has
FreshId(prefix) == prefix \o ToString(calls + 1)

ProcessTradeRequest(in) ==
    \E symbol \in in.Syms, quantity \in PipeQuantities, use_mcp_calls \in BOOLEAN :
      \E wired \in Wirings(use_mcp_calls) : \E peers \in Answers(wired, TradePeers) :
        /\ calls < in.Calls
        /\ \E p \in {process_trade_request(Current, <<FreshId("TRD_")>>, symbol,
                                           quantity, use_mcp_calls, wired, peers)} :
               InstallRun(p)

ProcessInvestmentReview(in) ==
    \E use_mcp_calls \in BOOLEAN :
      \E wired \in Wirings(use_mcp_calls) : \E peers \in Answers(wired, ReviewPeers) :
        /\ calls < in.Calls
        /\ \E p \in {process_investment_review(Current, FreshId("REV_"),
                                               use_mcp_calls, wired, peers)} :
               InstallRun(p)

NextPipe ==
    \/ ProcessTradeRequest(InputsPipe)
    \/ ProcessInvestmentReview(InputsPipe)
    \/ ExecuteTrade(InputsPipe)

SpecPipe == Init /\ [][NextPipe]_vars

----------------------------------------------------------------------------
(* The engine under requests handled in parallel.  The module takes no     *)
(* lock, so the handlers of two requests interleave statement by           *)
(* statement.  A thread handles one request: an execute_trade BUY (writers) *)
(* or a get_portfolio_state (readers).                                      *)

Writers == {"w1", "w2"}
Readers == {"r1"}

TradeRequests ==
    [symbol : {"A", "B"}, action : {"BUY"}, quantity : {1}, price : {30000, 60000},
     approved : BOOLEAN, risk_validation : RiskValidations]

Goto(th, label) ==
    /\ pc' = [pc EXCEPT ![th] = label]
    /\ UNCHANGED <<req, replies>>

Return(th, value) ==
    /\ pc' = [pc EXCEPT ![th] = "done"]
    /\ replies' = Put(replies, th, value)
    /\ UNCHANGED req

At(th, label) == th \in DOMAIN pc /\ pc[th] = label

\* a request arrives and a thread starts on its handler
AcceptTrade ==
    \E th \in Writers \ DOMAIN pc, r \in TradeRequests :
        /\ pc' = Put(pc, th, "line70")
        /\ req' = Put(req, th, r @@ [trade_id |-> <<th>>])
        /\ UNCHANGED <<engineVars, riskVars, pipeVars, serviceVars, replies>>

AcceptRead ==
    \E th \in Readers \ DOMAIN pc :
        /\ pc' = Put(pc, th, "line239")
        /\ req' = Put(req, th, [total_value |-> 0])
        /\ UNCHANGED <<engineVars, riskVars, pipeVars, serviceVars, replies>>

\* execute_trade, lines 70-78: the approval check
Line70 ==
    \E th \in Writers :
        /\ At(th, "line70")
        /\ IF ~req[th].approved
           THEN Return(th, Refusal(req[th].trade_id, "Trade not approved by risk server"))
           ELSE Goto(th, "line83")
        /\ UNCHANGED <<engineVars, riskVars, pipeVars, serviceVars>>

\* lines 83-89: the cash check
Line83 ==
    \E th \in Writers :
        /\ At(th, "line83")
        /\ IF cash < req[th].quantity * req[th].price
           THEN Return(th, Refusal(req[th].trade_id, "Insufficient cash"))
           ELSE Goto(th, "line91")
        /\ UNCHANGED <<engineVars, riskVars, pipeVars, serviceVars>>

\* line 91: the debit
Line91 ==
    \E th \in Writers :
        /\ At(th, "line91")
        /\ cash' = cash - req[th].quantity * req[th].price
        /\ Goto(th, "line93")
        /\ UNCHANGED <<positions, transaction_history, last_tool, result, calls,
                       riskVars, pipeVars, serviceVars>>

\* lines 93-110: the position is updated or created
Line93 ==
    \E th \in Writers :
        /\ At(th, "line93")
        /\ LET b == ExecuteBuy(Current, req[th].symbol, req[th].quantity, req[th].price)
           IN  IF b.raised
               THEN /\ Return(th, Refusal(req[th].trade_id, "Execution error"))
                    /\ UNCHANGED positions
               ELSE /\ positions' = b.st.positions
                    /\ Goto(th, "line141")
        /\ UNCHANGED <<cash, transaction_history, last_tool, result, calls,
                       riskVars, pipeVars, serviceVars>>

\* lines 141-166: the transaction is recorded and the payload returned
Line141 ==
    \E th \in Writers :
        /\ At(th, "line141")
        /\ LET o == RecordTransaction(Current, req[th].trade_id, req[th].symbol,
                                      req[th].action, req[th].quantity, req[th].price,
                                      req[th].risk_validation)
           IN  /\ transaction_history' = o.st.transaction_history
               /\ Return(th, o.ret)
        /\ UNCHANGED <<cash, positions, last_tool, result, calls, riskVars, pipeVars, serviceVars>>

\* get_portfolio_state, line 239: total_value is computed
Line239 ==
    \E th \in Readers :
        /\ At(th, "line239")
        /\ pc' = [pc EXCEPT ![th] = "line241"]
        /\ req' = [req EXCEPT ![th].total_value = calculate_portfolio_value(Current)]
        /\ UNCHANGED <<engineVars, riskVars, pipeVars, serviceVars, replies>>

\* lines 241-250: the payload is built around it
Line241 ==
    \E th \in Readers :
        /\ At(th, "line241")
        /\ Return(th, [get_portfolio_state(Current)
                          EXCEPT !.total_value = req[th].total_value])
        /\ UNCHANGED <<engineVars, riskVars, pipeVars, serviceVars>>

NextThreads ==
    \/ AcceptTrade
    \/ AcceptRead
    \/ Line70
    \/ Line83
    \/ Line91
    \/ Line93
    \/ Line141
    \/ Line239
    \/ Line241

SpecThreads == Init /\ [][NextThreads]_vars

----------------------------------------------------------------------------
(* Properties of the engine *)

\* C1: in every portfolio state and for all other arguments, execute_trade
\* with approved = FALSE returns success = FALSE and leaves cash, positions
\* and transaction_history as they were.
C1_UnapprovedTradeRefused ==
    \A trade_id \in TradeIds, symbol \in Symbols, action \in Actions,
       quantity \in Quantities, price \in Prices, risk_validation \in RiskValidations :
        LET o == execute_trade(Current, trade_id, symbol, action, quantity, price,
                               FALSE, risk_validation)
        IN  /\ o.ret.success = FALSE
            /\ o.st = Current

\* an unapproved execute_trade was refused on a portfolio that holds a position
C1_Witness ==
    /\ last_tool = "execute_trade"
    /\ result.success = FALSE
    /\ result.reason = "Trade not approved by risk server"
    /\ DOMAIN positions # {}

\* cash + sum of quantity * current_price over the positions
ValueFromQuantities ==
    cash + SumOver([s \in DOMAIN positions |->
                       positions[s].quantity * positions[s].current_price],
                   DOMAIN positions)

\* C5: in every reachable portfolio state the total_value reported by
\* get_portfolio_state is cash plus the sum of quantity * current_price.
C5_TotalValue ==
    get_portfolio_state(Current).total_value = ValueFromQuantities

\* two positions are held and a mark-to-market moved a price off its cost
C5_Witness ==
    /\ last_tool = "update_position_prices"
    /\ Cardinality(DOMAIN positions) = 2
    /\ \E s \in DOMAIN positions :
           /\ positions[s].quantity > 0
           /\ Frac(positions[s].current_price, 1) # positions[s].avg_price

\* C6: cash is never negative, whatever the arguments of execute_trade and
\* apply_rebalance.
C6_CashNeverNegative == cash >= 0

OldQuantity(symbol) ==
    IF symbol \in DOMAIN positions THEN positions[symbol].quantity ELSE 0

OldAvg(symbol) ==
    IF symbol \in DOMAIN positions THEN positions[symbol].avg_price ELSE Frac(0, 1)

\* C7: a completed BUY of Q at P lowers cash by exactly Q*P and leaves
\* new avg * new quantity = old avg * old quantity + Q*P (old quantity 0 for a
\* new position).  The averages are fractions, compared by cross-multiplying.
C7_CompletedBuy ==
    \A trade_id \in TradeIds, symbol \in Symbols, quantity \in Quantities,
       price \in Prices, risk_validation \in RiskValidations :
        LET o == execute_trade(Current, trade_id, symbol, "BUY", quantity, price,
                               TRUE, risk_validation)
        IN  o.ret.success =>
              /\ o.st.cash = cash - quantity * price
              /\ symbol \in DOMAIN o.st.positions
              /\ LET new == o.st.positions[symbol]
                     old == OldAvg(symbol)
                 IN  new.avg_price.num * new.quantity * old.den
                       = (old.num * OldQuantity(symbol) + quantity * price * old.den)
                           * new.avg_price.den

\* a BUY into an existing position completed and the new average cost is not
\* a whole number
C7_Witness ==
    /\ last_tool = "execute_trade"
    /\ result.success
    /\ result.action = "BUY"
    /\ result.quantity > 0
    /\ result.new_position # <<>>
    /\ result.new_position[1].quantity > result.quantity
    /\ result.new_position[1].avg_price.den # 1

\* C8: a completed SELL of Q at P raises cash by exactly Q*P, leaves the
\* average cost unchanged, and removes the symbol from the map when the
\* resulting quantity is 0.
C8_CompletedSell ==
    \A trade_id \in TradeIds, symbol \in Symbols, quantity \in Quantities,
       price \in Prices, risk_validation \in RiskValidations :
        LET o == execute_trade(Current, trade_id, symbol, "SELL", quantity, price,
                               TRUE, risk_validation)
        IN  o.ret.success =>
              /\ o.st.cash = cash + quantity * price
              /\ symbol \in DOMAIN o.st.positions =>
                    /\ o.st.positions[symbol].avg_price = positions[symbol].avg_price
                    /\ o.st.positions[symbol].quantity # 0
              /\ positions[symbol].quantity - quantity = 0 =>
                    symbol \notin DOMAIN o.st.positions

\* a SELL of the whole position completed and the symbol left the map
C8_Witness ==
    /\ last_tool = "execute_trade"
    /\ result.success
    /\ result.action = "SELL"
    /\ result.quantity > 0
    /\ result.new_position = <<>>
    /\ result.symbol \notin DOMAIN positions

\* the indices of the changes whose outcome reports success
Succeeded(outcomes) == {i \in 1..Len(outcomes) : outcomes[i].success}

\* the portfolio scenario S4 starts from: cash 300 and 100 of A
S4Start ==
    /\ cash = 300
    /\ DOMAIN positions = {"A"}
    /\ positions["A"].quantity = 100

\* C9: an approved apply_rebalance with a refused change keeps the changes
\* applied before it, still attempts the changes after it, and returns one
\* outcome per change in input order; on S4 the outcomes are success, refusal,
\* success and the final cash is 300.
C9_PartialRebalance ==
    \A rebalance_id \in RebalanceIds, changes \in InputsS4.Lists,
       risk_validation \in RiskValidations :
        LET o == apply_rebalance(Current, rebalance_id, changes, TRUE, risk_validation)
            outcomes == o.ret.changes
            before == Len(transaction_history)
            after == o.st.transaction_history
            \* the place in the history of the record of successful change i
            Place(i) == before + Cardinality({j \in Succeeded(outcomes) : j <= i})
        IN  /\ o.ret.success
            /\ Len(outcomes) = Len(changes)
            /\ \A i \in 1..Len(changes) :
                   outcomes[i].trade_id = <<rebalance_id, changes[i].symbol>>
            /\ Len(after) = before + Cardinality(Succeeded(outcomes))
            /\ SubSeq(after, 1, before) = transaction_history
            /\ \A i \in Succeeded(outcomes) :
                   /\ after[Place(i)].symbol = changes[i].symbol
                   /\ after[Place(i)].action = changes[i].action
                   /\ after[Place(i)].quantity = changes[i].quantity
                   /\ after[Place(i)].price = changes[i].price
            /\ (S4Start /\ changes = S4Changes) =>
                   /\ [i \in 1..3 |-> outcomes[i].success] = <<TRUE, FALSE, TRUE>>
                   /\ outcomes[1].new_cash = 1300
                   /\ o.st.cash = 300
                   /\ DOMAIN o.st.positions = {"C"}

\* the rebalance of S4 ran on the portfolio of S4: A sold, B refused, C bought
C9_Witness ==
    /\ last_tool = "apply_rebalance"
    /\ result.success
    /\ Len(result.changes) = 3
    /\ [i \in 1..3 |-> result.changes[i].success] = <<TRUE, FALSE, TRUE>>
    /\ [i \in 1..3 |-> result.changes[i].trade_id[2]] = <<"A", "B", "C">>
    /\ result.changes[1].new_cash = 1300
    /\ cash = 300
    /\ DOMAIN positions = {"C"}
    /\ Len(transaction_history) = 3

----------------------------------------------------------------------------
(* Properties of the risk server *)

\* the four policy checks on the arguments of the last validate_trade
WithinPolicy ==
    /\ proposal.confidence >= 600
    /\ proposal.volatility <= 500
    /\ proposal.position_size_pct.num <= 150 * proposal.position_size_pct.den
    /\ proposal.trade_value <= 20000

\* C10: validate_trade approves exactly when the violations list is empty, and
\* the list is empty exactly when confidence >= 0.60, volatility <= 0.50,
\* position size <= 0.15 and trade value <= 20000, a value at its limit
\* passing; the risk score has no part in the verdict.
C10_ApprovedIffWithinPolicy ==
    verdict # <<>> =>
        /\ verdict.approved <=> (verdict.violations = <<>>)
        /\ (verdict.violations = <<>>) <=> WithinPolicy

\* approved with all four values exactly at their limits, where the risk
\* score is 0.8
C10_Witness ==
    /\ verdict # <<>>
    /\ verdict.approved
    /\ proposal.confidence = 600
    /\ proposal.volatility = 500
    /\ proposal.position_size_pct = Frac(150, 1)
    /\ proposal.trade_value = 20000
    /\ verdict.risk_score = 800

\* C26: the risk_score that validate_trade returns lies in [0, 1] (0 to 1000
\* thousandths) for all input values, each of its three factors being
\* clamped to [0, 1] before the mean is taken.
C26_RiskScoreInUnitInterval ==
    verdict # <<>> => verdict.risk_score >= 0 /\ verdict.risk_score <= 1000

\* C20: every symbol present in the positions map has quantity > 0: a
\* position whose quantity is zero is absent from the map, after any sequence
\* of approved trades with any quantity values.
C20_NoEmptyPosition ==
    \A symbol \in DOMAIN positions : positions[symbol].quantity > 0

\* C25: between resets transaction_history is an append-only record of the
\* mutations: a call other than reset_portfolio leaves the records it found
\* in place, a call of a single tool that changes cash or positions appends
\* exactly one record, and a refused call appends none.
C25_HistoryRecordsMutations ==
    [][calls' # calls /\ last_tool' # "reset_portfolio" =>
          /\ Len(transaction_history') >= Len(transaction_history)
          /\ SubSeq(transaction_history', 1, Len(transaction_history))
                 = transaction_history
          /\ last_tool' # "apply_rebalance" =>
                /\ cash' # cash \/ positions' # positions =>
                      Len(transaction_history') = Len(transaction_history) + 1
                /\ "success" \in DOMAIN result' /\ ~result'.success =>
                      transaction_history' = transaction_history
      ]_vars

----------------------------------------------------------------------------
(* Properties of the supervisors *)

\* the positions in a run's trace at which it called a mutating engine tool
EngineCalls(log) ==
    {i \in DOMAIN log : /\ log[i].server = "execution"
                        /\ log[i].tool \in {"execute_trade", "apply_rebalance"}}

RiskCalls(log) == {i \in DOMAIN log : log[i].server = "risk"}

RunId(r) == IF "trade_id" \in DOMAIN r THEN r.trade_id ELSE <<r.review_id>>

\* the run got a verdict with approved = true
RunApproved(r) ==
    /\ "risk_validation" \in DOMAIN r
    /\ Get(r.risk_validation, "approved", FALSE)

\* C2: in every run of process_trade_request and process_investment_review, a
\* call of the engine's execute_trade or apply_rebalance comes after a call of
\* the risk server in the same run, carries the run's own id, and the risk
\* server's verdict in that run was approved = true; a run whose verdict is not
\* approved makes no such call and leaves cash, positions and the transaction
\* history as they were.
C2_EngineOnlyAfterApproval ==
    [][run' # run =>
        /\ \A i \in EngineCalls(rpc_log') :
              /\ RunApproved(run')
              /\ run'.risk_validation = verdict'
              /\ verdict'.approved
              /\ \E j \in RiskCalls(rpc_log') : j < i
              /\ rpc_log'[i].ref = RunId(run')
        /\ ~RunApproved(run') =>
              /\ EngineCalls(rpc_log') = {}
              /\ UNCHANGED <<cash, positions, transaction_history>>]_vars

\* a run of process_trade_request whose verdict was approved called the engine,
\* and the engine recorded the trade under the run's trade_id
C2_Witness ==
    /\ run # <<>>
    /\ "trade_id" \in DOMAIN run
    /\ RunApproved(run)
    /\ run.success
    /\ EngineCalls(rpc_log) # {}
    /\ last_tool = "execute_trade"
    /\ transaction_history # <<>>
    /\ transaction_history[Len(transaction_history)].trade_id = run.trade_id

\* the places in the compliance log of the events of one type for a trade_id
AuditEvents(event_type, trade_id) ==
    {i \in DOMAIN AUDIT_LOG :
        /\ AUDIT_LOG[i].event_type = event_type
        /\ "trade_id" \in DOMAIN AUDIT_LOG[i].details
        /\ AUDIT_LOG[i].details.trade_id = trade_id}

\* C19: every run of process_trade_request records audit events in the
\* compliance log in pipeline order: a proposal event, then a risk_decision
\* event, and an execution event exactly when the trade was approved and sent
\* to execution.
C19_RunLeavesAuditTrail ==
    (run # <<>> /\ "trade_id" \in DOMAIN run /\ "risk_validation" \in DOMAIN run) =>
        LET proposals == AuditEvents("proposal", run.trade_id)
            decisions == AuditEvents("risk_decision", run.trade_id)
            executions == AuditEvents("execution", run.trade_id)
        IN  /\ proposals # {}
            /\ decisions # {}
            /\ \E i \in proposals : \A j \in decisions : i < j
            /\ (executions # {}) <=> RunApproved(run)
            /\ \A j \in decisions : \A k \in executions : j < k

\* the portfolio a review works on (lines 165-178 of the investor
\* supervisor) and the stance its target allocation follows
ReviewPortfolio(st, use_mcp_calls, wired) ==
    IF use_mcp_calls
    THEN call_mcp_tool(wired, "execution", "get_portfolio_state", get_portfolio_state(st))
    ELSE MockPortfolio

ReviewMacro(use_mcp_calls, wired, peers) ==
    IF use_mcp_calls
    THEN call_mcp_tool(wired, "macro", "analyze_macro",
                       [investment_stance |-> peers.stance])
    ELSE [investment_stance |-> "BALANCED"]

\* what a list of changes or of suggestions proposes: a symbol and an action
Proposed(l) == [i \in DOMAIN l |-> [symbol |-> l[i].symbol, action |-> l[i].action]]

----------------------------------------------------------------------------
(* Properties of the engine under parallel requests *)

ThreadsStart == State(DefaultCash, <<>>, <<>>)

\* the requests of the threads in order, each handled alone, one after another
RECURSIVE SerialRun(_, _, _)
SerialRun(st, order, i) ==
    IF i > Len(order) THEN st
    ELSE LET r == req[order[i]]
         IN  SerialRun(execute_trade(st, r.trade_id, r.symbol, r.action, r.quantity,
                                     r.price, r.approved, r.risk_validation).st,
                       order, i + 1)

\* C3: once every writer has returned, cash, positions and the transaction
\* history are what handling the same requests one at a time, in some order,
\* would have produced.
C3_SomeSerialOrder ==
    (\A th \in Writers : At(th, "done")) =>
        \E order \in Arrangements(Writers) :
            /\ Len(order) = Cardinality(Writers)
            /\ Current = SerialRun(ThreadsStart, order, 1)

\* C4: what get_portfolio_state returns is the state before or after the
\* requests handled beside it: the state that some of them, each handled
\* alone and in some order, would have produced.
C4_NoHalfAppliedRead ==
    \A th \in Readers :
        At(th, "done") =>
            \E order \in Arrangements(Writers \cap DOMAIN req) :
                replies[th] = get_portfolio_state(SerialRun(ThreadsStart, order, 1))

----------------------------------------------------------------------------
(* Properties of the compliance server *)

\* the order of Python strings on sequences of digits: lexicographic
RECURSIVE LexLess(_, _)
LexLess(a, b) ==
    IF b = <<>> THEN FALSE
    ELSE IF a = <<>> THEN TRUE
    ELSE IF Head(a) # Head(b) THEN Head(a) < Head(b)
    ELSE LexLess(Tail(a), Tail(b))

\* C11: of any two events that log_event recorded since the process started,
\* the one issued earlier has the strictly smaller event_id, so no two events
\* share one, clear_audit_log calls included.
C11_EventIdMonotone ==
    \A i, j \in DOMAIN issued :
        i < j => LexLess(issued[i].digits, issued[j].digits)

----------------------------------------------------------------------------
(* The alert table and the monitor *)

\* C12: an alert whose condition is a crossing is never fired by its first
\* observation: while its last_price is still None it is not triggered,
\* whatever the quote and the threshold.
C12_NoCrossingOnFirstObservation ==
    \A r \in DOMAIN heap :
        heap[r].condition \in Crossing /\ heap[r].last_price = <<>>
            => ~heap[r].triggered /\ heap[r].trigger_count = 0

\* a crossing alert has been observed, every time above its threshold, and
\* has not fired
C12_Witness ==
    \E r \in DOMAIN heap :
        /\ heap[r].condition = "crosses_above"
        /\ heap[r].last_price # <<>>
        /\ heap[r].last_price[1] > heap[r].threshold
        /\ ~heap[r].triggered

\* C13: each alert fires at most once: under every interleaving of monitor
\* ticks, check_alerts_now and the create and delete tools, an alert's
\* trigger_count never exceeds 1 and at most one broadcast is sent for it.
C13_FiresAtMostOnce ==
    \A r \in DOMAIN heap : heap[r].trigger_count <= 1 /\ broadcasts[r] <= 1

\* the monitor threads that have been started and have not left the loop
Alive == {t \in DOMAIN loops : loops[t].pc # "done"}

\* C14: at most one monitor loop is alive at any time, whatever the sequence
\* or interleaving of create_price_alert, start_monitor and stop_monitor: a
\* start requested while a loop is alive creates no second loop.
C14_OneLoopAlive == Cardinality(Alive) <= 1

\* C15: once stop_monitor has returned success and no start is requested
\* afterwards (stopped), monitor_running reads false from then on, and the
\* loop ends: it runs no tick after its current iteration and sleep, and
\* terminates.
C15_StopEndsTheLoop ==
    /\ [](stopped => ~_monitor_running)
    /\ (<>[]stopped) => <>[](Alive = {})

\* C17: in every state of the alert table, create_price_alert followed at
\* once by delete_price_alert of the alert_id it returned leaves the output
\* of list_price_alerts as it was before the create, whatever the symbol,
\* the condition and the user of the new alert and the filters of the list.
C17_CreateThenDeleteRestores ==
    Free =>
        \A symbol \in AlertSymbols, condition \in Conditions,
           threshold \in Thresholds, user_id \in AlertUsers,
           who \in AlertUsers \cup {""}, active_only \in BOOLEAN :
            LET created == create_price_alert(CurrentTable, symbol, condition,
                                              threshold, user_id, now)
                deleted == delete_price_alert(created.tb, created.ret.alert_id)
            IN  list_price_alerts(deleted.tb, _monitor_running, who, active_only)
                    = list_price_alerts(CurrentTable, _monitor_running, who,
                                        active_only)

\* the alerts of the table that have fired, by alert_id
TriggeredIds(alerts, hp) ==
    {alerts[i].k : i \in {j \in DOMAIN alerts : hp[alerts[j].v].triggered}}

\* C18: the alert file is rewritten after every mutation of the table, so a
\* restart loads the table as it was last mutated; in particular an alert
\* that was triggered in memory before the restart is triggered after it.
C18_RestartKeepsTheTable ==
    [][boots' # boots =>
          /\ _save_alerts(ACTIVE_ALERTS', heap') = _save_alerts(ACTIVE_ALERTS, heap)
          /\ TriggeredIds(ACTIVE_ALERTS, heap) \subseteq TriggeredIds(ACTIVE_ALERTS', heap')
      ]_vars

\* the evaluations that are about to run: the frame of check_alerts_now at
\* line 505 and of each monitor thread at line 297, when the next alert of its
\* snapshot has a quote
Evaluations ==
    {fr \in {handler} \cup {loops[t] : t \in DOMAIN loops} :
        /\ fr.pc \in {"L505", "L297"}
        /\ fr.i <= Len(fr.active)
        /\ heap[fr.active[fr.i]].symbol \in DOMAIN fr.prices}

\* C21: on any observation after the first, a crosses_above alert fires
\* exactly when the recorded last_price <= threshold and the quote >
\* threshold, and a crosses_below alert exactly when last_price >= threshold
\* and the quote < threshold, for every value of the recorded price.
C21_CrossingFiresExactly ==
    \A fr \in Evaluations :
        LET alert == heap[fr.active[fr.i]]
            price == fr.prices[alert.symbol]
        IN  alert.condition \in Crossing /\ alert.last_price # <<>> =>
                (Evaluate(heap, fr).fired <=>
                     IF alert.condition = "crosses_above"
                     THEN alert.last_price[1] <= alert.threshold
                              /\ price > alert.threshold
                     ELSE alert.last_price[1] >= alert.threshold
                              /\ price < alert.threshold)

\* C23: every send appends exactly one record to the notification history;
\* for the alert table: each broadcast of a triggered alert, from a monitor
\* tick or from check_alerts_now, has its record.
C23_EveryBroadcastRecorded ==
    SumOver(broadcasts, DOMAIN broadcasts) = Len(NOTIFICATION_HISTORY)

\* C22: monitor_log never holds more than its cap of 50 entries, whatever mix
\* of "check", "triggered" and "error" events the ticks append.
C22_LogWithinCap == Len(_monitor_log) <= _MAX_LOG

\* the statements of the loop's try block (lines 287-320)
TryBlock == {"L287", "L292", "L297", "L310", "L314", "L317"}

\* the last entry of the log is the given event
Logged(log, event) == log # <<>> /\ log[Len(log)] = [event |-> event]

\* C24: an exception raised inside a monitor tick is caught and recorded in
\* monitor_log as an "error" event, and the loop goes on: a step of a thread
\* inside the try block leaves the thread in the block or asleep before its
\* next tick, never ended; when it leaves the block from the quotes, the
\* evaluation or the broadcast, which only an exception does, or from the
\* file write without a "check", the step has appended an "error".
C24_ExceptionsCaught ==
    [][boots' = boots =>
          \A t \in DOMAIN loops :
              loops[t].pc \in TryBlock /\ loops'[t] # loops[t] =>
                  /\ loops'[t].pc \in TryBlock \cup {"L323"}
                  /\ loops'[t].pc = "L323" /\ loops[t].pc # "L287" =>
                        \/ _monitor_log' = Append(_monitor_log, [event |-> "error"])
                        \/ /\ loops[t].pc = "L317"
                           /\ _monitor_log'
                                  = Trim(Append(_monitor_log, [event |-> "check"]))
      ]_vars

\* a tick raised and logged its error, and the thread has slept and is back
\* at the test of the flag
C24_Witness ==
    \E t \in DOMAIN loops :
        /\ loops[t].pc = "L285"
        /\ ticks > 0
        /\ Logged(_monitor_log, "error")

\* C29: a proposal whose action is HOLD, or anything other than BUY or SELL,
\* never changes the portfolio: the history holds no record of such an
\* action (the trader supervisor stops it, and execute_trade, reached with
\* approved = TRUE, records nothing for it).
C29_HoldLeavesNoRecord ==
    \A i \in DOMAIN transaction_history :
        transaction_history[i].action \in {"BUY", "SELL"}

\* C30: the summary apply_rebalance returns agrees with its per-change
\* outcomes: changes_applied is the number of changes whose outcome has
\* success = TRUE.
C30_SummaryCountsSuccesses ==
    last_tool = "apply_rebalance" /\ "changes_applied" \in DOMAIN result
        => result.changes_applied = Cardinality(Succeeded(result.changes))

----------------------------------------------------------------------------
(* The market server *)

\* C28: symbol normalization is idempotent: for every requested symbol, in
\* any letter case and with any combination of USDT and -USD suffixes, the
\* ticker it is converted to is converted to itself.
C28_NormalizationIdempotent ==
    ticker # <<>> => _get_ticker_symbol(ticker[1]) = ticker[1]

----------------------------------------------------------------------------
(* The delivery channels *)

\* the channels the server itself reports as available
Available ==
    LET channels == get_notification_status(config, NOTIFICATION_HISTORY).channels
    IN  {c \in DOMAIN channels : channels[c]}

\* C16: send_alert attempts every available channel whichever of them fail:
\* its result map names each available channel, channels_attempted is the
\* number of available channels and channels_delivered the number of
\* results that are a success.
C16_EveryAvailableChannelAttempted ==
    ("tool" \in DOMAIN reply /\ reply.tool = "send_alert") =>
        /\ DOMAIN reply.results = Available
        /\ reply.channels_attempted = Cardinality(Available)
        /\ reply.channels_delivered =
               Cardinality({c \in DOMAIN reply.results : reply.results[c].success})

====
